---- MODULE Spec2Model ----
(***************************************************************************)
(* Twins tracker: multi-device synchronisation of one shared document.     *)
(* Every device (browser) runs src/scripts/tracker.ts on top of            *)
(* src/scripts/supabase.ts; all devices share one remote row of the table  *)
(* tracker_data and receive its changes over a realtime channel.           *)
(*                                                                         *)
(* Time is a pair [date, ms]: a calendar date (what getDateKey yields) and *)
(* the milliseconds since local midnight.  A timer callback runs when its  *)
(* delay has elapsed: the clock does not pass a pending deadline.          *)
(* Sequences are 1-based: child c of the model is childIndex c-1 of the    *)
(* source; dose indices keep the source's 0-based values.                  *)
(***************************************************************************)
EXTENDS Integers, Sequences, FiniteSets, TLC

\* ------------------------------------------------------------- bounds
MaxTicks == 3            \* clock ticks of one second each
MaxDate == 2             \* last calendar date the clock reaches
MaxDuplicates == 1       \* notifications the channel delivers twice
MaxChannelFailures == 1  \* channel errors, timeouts and closes
MaxUserActions == 2      \* user actions of Spec, all devices
MaxLocalActions == 1     \* user actions of SpecLocal, endpoint calls included
MaxNavigations == 1      \* clicks on the date arrows
MaxViewBack == 1         \* days the user pages back from today
MaxApiPosts == 1         \* calls of the feeds endpoint
MaxMedActions == 3       \* user actions of SpecMeds
MaxPlannerActions == 2   \* deletions of SpecPlanner
MaxRetentionActions == 2 \* user actions of SpecRetention
MaxReconnectFailures == 7 \* channel errors, timeouts and closes of SpecReconnect
MaxRemoved == 2          \* removed channels whose CLOSED report is still awaited
MaxIngests == 2          \* calls of applyParsedData in SpecIngest
MaxDoses == 2            \* dose times of a drawn schedule in SpecUrgency
MaxUrgencyActions == 3
MaxEvents == 3
MaxLayoutActions == 2
MaxArchiveActions == 1
MaxEchoActions == 1
MaxDragActions == 2
MaxTimeActions == 2   \* user actions of SpecUrgency

\* ---------------------------------------------------- program constants
SAVE_DEBOUNCE_MS == 1000
ECHO_WINDOW_MS == 2000
BASE_RECONNECT_DELAY == 1000
MAX_RECONNECT_DELAY == 30000
MS_PER_MINUTE == 60000
LATE_MINUTES == 30
EVENT_HEIGHT == 36
SOON_MINUTES == 120
HISTORY_DAYS == 30

MS_PER_HOUR == 60 * MS_PER_MINUTE
MS_PER_DAY == 24 * MS_PER_HOUR

Devices == {"A", "B"}
Children == {1, 2}

\* ---------------------------------------------------------------- time
Time(d, m) == [date |-> d, ms |-> m]
Epoch == Time(0, 0)          \* the number 0 as a timestamp
NullTime == Time(0, -1)      \* null where a timestamp or timer is expected

\* a - b in milliseconds; differences of two days or more saturate, they are
\* only ever compared with delays of a few seconds
ElapsedMs(a, b) ==
    IF a.date - b.date >= 2 THEN 2 * MS_PER_DAY
    ELSE (a.date - b.date) * MS_PER_DAY + (a.ms - b.ms)

AddMs(t, n) == Time(t.date, t.ms + n)

\* the clock advances in steps of the debounce delay and starts each day here
TickMs == SAVE_DEBOUNCE_MS
WakeMs == 9 * MS_PER_HOUR

getDateKey(t) == t.date

\* ------------------------------------------------------------- strings
\* a time string is the sequence of its characters
Digits == <<"0", "1", "2", "3", "4", "5", "6", "7", "8", "9">>
IsDigit(ch) == \E n \in 1..10 : Digits[n] = ch
DigitValue(ch) == (CHOOSE n \in 1..10 : Digits[n] = ch) - 1

\* String(n) and `${n}` of a whole number below 100
DecimalString(n) ==
    IF n < 10 THEN <<Digits[n + 1]>> ELSE <<Digits[(n \div 10) + 1], Digits[(n % 10) + 1]>>

\* padStart(2, '0')
padStart2(str) == IF Len(str) < 2 THEN <<"0">> \o str ELSE str

\* toLocaleTimeString('en-US', {hour: 'numeric', minute: '2-digit'}) and the
\* `${displayHour}:${minuteStr} ${ampm}` strings: hour 1..12 without a
\* leading zero, a colon, the minute in two digits, a space, AM or PM
DisplayTime(hour, minute) ==
    DecimalString(IF hour % 12 = 0 THEN 12 ELSE hour % 12) \o <<":">>
        \o padStart2(DecimalString(minute)) \o <<" ">>
        \o (IF hour >= 12 THEN <<"P", "M">> ELSE <<"A", "M">>)

HourOf(ms) == ms \div MS_PER_HOUR
MinuteOf(ms) == (ms % MS_PER_HOUR) \div MS_PER_MINUTE
toLocaleTimeString(t) == DisplayTime(HourOf(t.ms), MinuteOf(t.ms))

\* new Date(); setHours(hours, minutes, 0, 0)
setHours(t, hours, minutes) ==
    LET ms == hours * MS_PER_HOUR + minutes * MS_PER_MINUTE
    IN  Time(t.date + ms \div MS_PER_DAY, ms % MS_PER_DAY)

\* ------------------------------------------------------------ sequences
Includes(s, x) == \E i \in 1..Len(s) : s[i] = x

\* a Record<string, T> of the source: a function whose domain is its key set
NoKeys == <<>>
HasKey(map, k) == k \in DOMAIN map
Put(map, k, v) == [x \in (DOMAIN map) \cup {k} |-> IF x = k THEN v ELSE map[x]]
Delete(map, k) == [x \in (DOMAIN map) \ {k} |-> map[x]]

\* ------------------------------------------------------------ documents
EmptyDayLog == [feeds |-> <<>>, diapers |-> <<>>, meds |-> <<>>, medsDone |-> NoKeys]
EmptyLogs == <<EmptyDayLog, EmptyDayLog>>

DoseTime(h, m) == [hour |-> h, min |-> m]

DefaultMedication ==
    [id |-> "m1", name |-> "Iron", dosesPerDay |-> 2,
     doseTimes |-> <<DoseTime(8, 0), DoseTime(20, 0)>>]

NewChild(name, meds) ==
    [name |-> name, birthDate |-> "", weightKg |-> 0, weightDate |-> "",
     medications |-> meds, feedSchedules |-> <<>>]

\* the document after the first run: defaults loaded, no event logged
InitialDoc(today) ==
    [children |-> <<NewChild("Emily", <<DefaultMedication>>), NewChild("Jimmy", <<>>)>>,
     today |-> today,
     logs |-> EmptyLogs,
     historicalLogs |-> NoKeys]

\* a document later in the day: child 1 has a feed, a diaper and the first
\* dose of its medication logged, all of them pushed and stored already
BusyLog(today) ==
    [feeds |-> <<[text |-> "Feed 120mL", time |-> DisplayTime(8, 30),
                  id |-> Time(today, 8 * MS_PER_HOUR + 30 * MS_PER_MINUTE),
                  timestamp |-> Time(today, 8 * MS_PER_HOUR + 30 * MS_PER_MINUTE)]>>,
     diapers |-> <<[type |-> "pee", time |-> DisplayTime(8, 45),
                    timestamp |-> Time(today, 8 * MS_PER_HOUR + 45 * MS_PER_MINUTE)]>>,
     meds |-> <<[medId |-> "m1", medName |-> "Iron", doseIndex |-> 0,
                 time |-> DisplayTime(8, 0), timestamp |-> Time(today, 8 * MS_PER_HOUR)]>>,
     medsDone |-> [k \in {"m1"} |-> <<0>>]]

BusyDoc(today) == [InitialDoc(today) EXCEPT !.logs[1] = BusyLog(today)]

\* a document whose first child has a second medication, added in the
\* settings with its one dose at the time of the first dose of the other
SecondMedication ==
    [id |-> "m2", name |-> "Vitamin D", dosesPerDay |-> 1, doseTimes |-> <<DoseTime(8, 0)>>]

TwoMedsDoc(today) ==
    [InitialDoc(today) EXCEPT !.children[1].medications = Append(@, SecondMedication)]

\* a document in use for a month or more: one archived day per key, each
\* with the feed of that morning, and a feed logged today
ArchivedDay(date) ==
    [EmptyLogs EXCEPT ![1].feeds =
        <<[text |-> "Feed 120mL", time |-> DisplayTime(8, 30),
           id |-> Time(date, 8 * MS_PER_HOUR + 30 * MS_PER_MINUTE),
           timestamp |-> Time(date, 8 * MS_PER_HOUR + 30 * MS_PER_MINUTE)]>>]

HistoryDoc(today, dates) ==
    [InitialDoc(today) EXCEPT !.logs = ArchivedDay(today),
                              !.historicalLogs = [k \in dates |-> ArchivedDay(k)]]

\* JSON.stringify(data) and JSON.parse: the text of a document
Stringify(doc) == [json |-> doc]
Parse(text) == text.json

\* ---------------------------------------------------------- getMedUrgency
\* Math.round of a non-negative number of minutes given in milliseconds
RoundMinutes(ms) == (ms + MS_PER_MINUTE \div 2) \div MS_PER_MINUTE

\* a selection of the not-done dose closest to now, before or after
RECURSIVE NextDue_closest(_, _, _, _)
NextDue_closest(med, doneToday, now, i) ==
    IF i = 0 THEN [index |-> -1, diffMs |-> 0]
    ELSE LET prev == NextDue_closest(med, doneToday, now, i - 1)
             t == med.doseTimes[i]
             diff == ElapsedMs(setHours(now, t.hour, t.min), now)
             Abs(x) == IF x < 0 THEN 0 - x ELSE x
         IN  IF Includes(doneToday, i - 1) THEN prev
             ELSE IF prev.index = -1 \/ Abs(diff) < Abs(prev.diffMs)
                  THEN [index |-> i - 1, diffMs |-> diff]
                  ELSE prev

\* a selection in which a later dose with the same difference replaces the
\* earlier one
RECURSIVE NextDue_lastOfEqual(_, _, _, _)
NextDue_lastOfEqual(med, doneToday, now, i) ==
    IF i = 0 THEN [index |-> -1, diffMs |-> 0]
    ELSE LET prev == NextDue_lastOfEqual(med, doneToday, now, i - 1)
             t == med.doseTimes[i]
             diff == ElapsedMs(setHours(now, t.hour, t.min), now)
         IN  IF Includes(doneToday, i - 1) THEN prev
             ELSE IF prev.index = -1 \/ diff <= prev.diffMs
                  THEN [index |-> i - 1, diffMs |-> diff]
                  ELSE prev

\* the selection loop: the not-done dose with the smallest doseDate - now;
\* a later dose replaces the choice only when strictly smaller
RECURSIVE NextDue(_, _, _, _)
NextDue(med, doneToday, now, i) ==
    IF i = 0 THEN [index |-> -1, diffMs |-> 0]
    ELSE LET prev == NextDue(med, doneToday, now, i - 1)
             t == med.doseTimes[i]
             diff == ElapsedMs(setHours(now, t.hour, t.min), now)
         IN  IF Includes(doneToday, i - 1) THEN prev
             ELSE IF prev.index = -1 \/ diff < prev.diffMs
                  THEN [index |-> i - 1, diffMs |-> diff]
                  ELSE prev

\* a classification that says Now only within 15 minutes of the dose time
getMedUrgency_nowWithin15(med, log, now) ==
    LET doneToday == IF HasKey(log.medsDone, med.id) THEN log.medsDone[med.id] ELSE <<>>
        nextDue == NextDue(med, doneToday, now, Len(med.doseTimes))
        overdue == 0 - nextDue.diffMs
    IN  IF nextDue.index = -1
        THEN [status |-> "done", text |-> [kind |-> "Done", h |-> 0, m |-> 0], nextDose |-> nextDue]
        ELSE IF nextDue.diffMs < 0 - LATE_MINUTES * MS_PER_MINUTE
        THEN [status |-> "urgent",
              text |-> IF overdue < MS_PER_HOUR
                       THEN [kind |-> "late", h |-> 0, m |-> RoundMinutes(overdue)]
                       ELSE [kind |-> "late", h |-> overdue \div MS_PER_HOUR,
                             m |-> RoundMinutes(overdue % MS_PER_HOUR)],
              nextDose |-> nextDue]
        ELSE IF nextDue.diffMs < 15 * MS_PER_MINUTE /\ nextDue.diffMs > 0 - 15 * MS_PER_MINUTE
        THEN [status |-> "urgent", text |-> [kind |-> "Now", h |-> 0, m |-> 0], nextDose |-> nextDue]
        ELSE IF nextDue.diffMs < SOON_MINUTES * MS_PER_MINUTE
        THEN [status |-> "soon",
              text |-> [kind |-> "in", h |-> 0, m |-> RoundMinutes(nextDue.diffMs)],
              nextDose |-> nextDue]
        ELSE [status |-> "normal",
              text |-> [kind |-> "in", h |-> nextDue.diffMs \div MS_PER_HOUR, m |-> 0],
              nextDose |-> nextDue]

\* a classification that says soon only up to 60 minutes ahead
getMedUrgency_soonUntil60(med, log, now) ==
    LET doneToday == IF HasKey(log.medsDone, med.id) THEN log.medsDone[med.id] ELSE <<>>
        nextDue == NextDue(med, doneToday, now, Len(med.doseTimes))
        overdue == 0 - nextDue.diffMs
    IN  IF nextDue.index = -1
        THEN [status |-> "done", text |-> [kind |-> "Done", h |-> 0, m |-> 0], nextDose |-> nextDue]
        ELSE IF nextDue.diffMs < 0 - LATE_MINUTES * MS_PER_MINUTE
        THEN [status |-> "urgent",
              text |-> IF overdue < MS_PER_HOUR
                       THEN [kind |-> "late", h |-> 0, m |-> RoundMinutes(overdue)]
                       ELSE [kind |-> "late", h |-> overdue \div MS_PER_HOUR,
                             m |-> RoundMinutes(overdue % MS_PER_HOUR)],
              nextDose |-> nextDue]
        ELSE IF nextDue.diffMs < LATE_MINUTES * MS_PER_MINUTE
        THEN [status |-> "urgent", text |-> [kind |-> "Now", h |-> 0, m |-> 0], nextDose |-> nextDue]
        ELSE IF nextDue.diffMs < 60 * MS_PER_MINUTE
        THEN [status |-> "soon",
              text |-> [kind |-> "in", h |-> 0, m |-> RoundMinutes(nextDue.diffMs)],
              nextDose |-> nextDue]
        ELSE [status |-> "normal",
              text |-> [kind |-> "in", h |-> nextDue.diffMs \div MS_PER_HOUR, m |-> 0],
              nextDose |-> nextDue]

getMedUrgency(med, log, now) ==
    LET doneToday == IF HasKey(log.medsDone, med.id) THEN log.medsDone[med.id] ELSE <<>>
        nextDue == NextDue(med, doneToday, now, Len(med.doseTimes))
        overdue == 0 - nextDue.diffMs
    IN  IF nextDue.index = -1
        THEN [status |-> "done", text |-> [kind |-> "Done", h |-> 0, m |-> 0], nextDose |-> nextDue]
        ELSE IF nextDue.diffMs < 0 - LATE_MINUTES * MS_PER_MINUTE
        THEN [status |-> "urgent",
              text |-> IF overdue < MS_PER_HOUR
                       THEN [kind |-> "late", h |-> 0, m |-> RoundMinutes(overdue)]
                       ELSE [kind |-> "late", h |-> overdue \div MS_PER_HOUR,
                             m |-> RoundMinutes(overdue % MS_PER_HOUR)],
              nextDose |-> nextDue]
        ELSE IF nextDue.diffMs < LATE_MINUTES * MS_PER_MINUTE
        THEN [status |-> "urgent", text |-> [kind |-> "Now", h |-> 0, m |-> 0], nextDose |-> nextDue]
        ELSE IF nextDue.diffMs < SOON_MINUTES * MS_PER_MINUTE
        THEN [status |-> "soon",
              text |-> [kind |-> "in", h |-> 0, m |-> RoundMinutes(nextDue.diffMs)],
              nextDose |-> nextDue]
        ELSE [status |-> "normal",
              text |-> [kind |-> "in", h |-> nextDue.diffMs \div MS_PER_HOUR, m |-> 0],
              nextDose |-> nextDue]

\* ------------------------------------------------------- document rules
hasAnyData(logs) ==
    \E i \in 1..Len(logs) :
        \/ Len(logs[i].feeds) > 0
        \/ Len(logs[i].diapers) > 0
        \/ Len(logs[i].meds) > 0
        \/ DOMAIN logs[i].medsDone # {}

\* no retention: every archived date is kept
PruneHistory_keepsAll(hist) == hist

\* a retention that evicts the most recent dates instead of the oldest
PruneHistory_newestFirst(hist) ==
    LET keep == {k \in DOMAIN hist :
                    Cardinality({j \in DOMAIN hist : j < k}) < HISTORY_DAYS}
    IN  [k \in keep |-> hist[k]]

\* "Keep only last 30 days of history": the keys sorted by date, newest first,
\* and every key after the first HISTORY_DAYS deleted
PruneHistory(hist) ==
    LET keep == {k \in DOMAIN hist :
                    Cardinality({j \in DOMAIN hist : j > k}) < HISTORY_DAYS}
    IN  [k \in keep |-> hist[k]]

\* the document part of checkNewDay, when data.today differs from today
RolledOver(doc, today) ==
    LET archived == IF doc.today # 0 /\ hasAnyData(doc.logs)
                    THEN PruneHistory(Put(doc.historicalLogs, doc.today, doc.logs))
                    ELSE doc.historicalLogs
    IN  [doc EXCEPT !.historicalLogs = archived, !.today = today, !.logs = EmptyLogs]

\* c.birthDate || data.children[i]?.birthDate, for a string or a number
OrLocal(incoming, children, i, field, absent) ==
    IF incoming # absent THEN incoming
    ELSE IF i <= Len(children) THEN children[i][field] ELSE absent

\* a merge that takes the incoming children and archive but keeps the
\* device's own live logs
applyParsedData_keepLocalLogs(doc, parsed) ==
    [children |-> parsed.children,
     today |-> parsed.today,
     logs |-> doc.logs,
     historicalLogs |-> parsed.historicalLogs]

applyParsedData(doc, parsed) ==
    [children |-> [i \in 1..Len(parsed.children) |->
                     [parsed.children[i] EXCEPT
                        !.birthDate = OrLocal(@, doc.children, i, "birthDate", ""),
                        !.weightKg = OrLocal(@, doc.children, i, "weightKg", 0),
                        !.weightDate = OrLocal(@, doc.children, i, "weightDate", "")]],
     today |-> parsed.today,
     logs |-> parsed.logs,
     historicalLogs |-> parsed.historicalLogs]

\* ------------------------------------------- documents of any shape
\* a JSON value as JavaScript holds it, tagged with what typeof and
\* Array.isArray tell apart; an object is a function from its keys
Undefined == [kind |-> "undefined"]
Null == [kind |-> "null"]
Str(t) == [kind |-> "string", text |-> t]
Num(n) == [kind |-> "number", num |-> n]
Arr(seq) == [kind |-> "array", items |-> seq]
Obj(fields) == [kind |-> "object", fields |-> fields]

\* reading a property of undefined or null throws a TypeError
Nullish(v) == v.kind \in {"undefined", "null"}
IsArray(v) == v.kind = "array"

\* v || w
Or(v, w) ==
    IF \/ Nullish(v)
       \/ v.kind = "string" /\ v.text = ""
       \/ v.kind = "number" /\ v.num = 0
    THEN w ELSE v

\* the own enumerable properties that {...v} copies
FieldsOf(v) == IF v.kind = "object" THEN v.fields ELSE NoKeys

\* v.name and v?.name of a value that is not a string or an array
Get(v, name) == IF HasKey(FieldsOf(v), name) THEN FieldsOf(v)[name] ELSE Undefined

\* array[i] with the index counted from 1
At(v, i) == IF IsArray(v) /\ i <= Len(v.items) THEN v.items[i] ELSE Undefined

\* {...f, ...g} of two key maps
Overlay(f, g) == [n \in (DOMAIN f) \cup (DOMAIN g) |-> IF n \in DOMAIN g THEN g[n] ELSE f[n]]

\* JSON.parse(JSON.stringify(v)): properties holding undefined are left out,
\* undefined inside an array becomes null
RECURSIVE Stringified(_)
Stringified(v) ==
    IF v.kind = "object"
    THEN Obj([n \in {k \in DOMAIN v.fields : v.fields[k] # Undefined} |-> Stringified(v.fields[n])])
    ELSE IF v.kind = "array"
    THEN Arr([i \in 1..Len(v.items) |->
                 IF v.items[i] = Undefined THEN Null ELSE Stringified(v.items[i])])
    ELSE v

\* `${String(hour).padStart(2, '0')}:00`
HourText(hour) ==
    <<"00:00", "01:00", "02:00", "03:00", "04:00", "05:00", "06:00", "07:00",
      "08:00", "09:00", "10:00", "11:00", "12:00", "13:00", "14:00", "15:00",
      "16:00", "17:00", "18:00", "19:00", "20:00", "21:00", "22:00", "23:00">>[hour + 1]

\* generateDefaultTimes(doses) with the default start '08:00', for a number
\* of doses that divides 24
generateDefaultTimes(doses) ==
    Arr([i \in 1..doses |-> Str(HourText((8 + (24 \div doses) * (i - 1)) % 24))])

\* the callback of (c.medications || []).map
WithDoseTimes(m) ==
    LET doses == Get(m, "dosesPerDay")
    IN  Obj(Overlay(FieldsOf(m),
            [doseTimes |-> IF Or(Get(m, "doseTimes"), Undefined) # Undefined
                           THEN Get(m, "doseTimes")
                           ELSE IF doses.kind = "number" THEN generateDefaultTimes(doses.num)
                           ELSE Arr(<<>>)]))

\* a merge that builds each child from the incoming entry alone
ReconciledChild_incomingOnly(data, c, i) ==
    LET meds == Or(Get(c, "medications"), Arr(<<>>))
    IN  Obj(Overlay(FieldsOf(c),
            [feedSchedules |-> Or(Get(c, "feedSchedules"), Arr(<<>>)),
             medications |-> Arr([j \in 1..Len(meds.items) |-> WithDoseTimes(meds.items[j])])]))

\* the callback of parsed.children.map
ReconciledChild(data, c, i) ==
    LET local == At(Get(data, "children"), i)
        meds == Or(Get(c, "medications"), Arr(<<>>))
    IN  Obj(Overlay(Overlay(FieldsOf(local), FieldsOf(c)),
            [birthDate |-> Or(Get(c, "birthDate"), Get(local, "birthDate")),
             weightKg |-> Or(Get(c, "weightKg"), Get(local, "weightKg")),
             weightDate |-> Or(Get(c, "weightDate"), Get(local, "weightDate")),
             feedSchedules |-> Or(Get(c, "feedSchedules"), Arr(<<>>)),
             medications |-> Arr([j \in 1..Len(meds.items) |-> WithDoseTimes(meds.items[j])])]))

\* a merge of the logs that appends the incoming diapers to the local ones
ReconciledLog_appendsDiapers(data, l, i) ==
    LET local == Or(Get(At(Get(data, "logs"), i), "diapers"), Arr(<<>>))
    IN  Obj(Overlay(Overlay(FieldsOf(At(Get(data, "logs"), i)), FieldsOf(l)),
            [diapers |-> IF IsArray(Get(l, "diapers"))
                         THEN Arr(local.items \o Get(l, "diapers").items) ELSE local,
             meds |-> Or(Get(l, "meds"), Arr(<<>>)),
             feedAmounts |-> Or(Get(l, "feedAmounts"), Obj(NoKeys))]))

\* the callback of parsed.logs.map
ReconciledLog(data, l, i) ==
    Obj(Overlay(Overlay(FieldsOf(At(Get(data, "logs"), i)), FieldsOf(l)),
        [diapers |-> IF IsArray(Get(l, "diapers")) THEN Get(l, "diapers") ELSE Arr(<<>>),
         meds |-> Or(Get(l, "meds"), Arr(<<>>)),
         feedAmounts |-> Or(Get(l, "feedAmounts"), Obj(NoKeys))]))

\* the expressions of applyParsedData that throw a TypeError: .map of a
\* value that is not an array, a property of null or undefined
ReconcileThrows(parsed) ==
    LET children == Get(parsed, "children")
        logs == Get(parsed, "logs")
    IN  \/ ~IsArray(children)
        \/ \E i \in 1..Len(children.items) :
              LET c == children.items[i]
                  meds == Or(Get(c, "medications"), Arr(<<>>))
              IN  \/ Nullish(c)
                  \/ ~IsArray(meds)
                  \/ \E j \in 1..Len(meds.items) : Nullish(meds.items[j])
        \/ ~IsArray(logs)
        \/ \E i \in 1..Len(logs.items) : Nullish(logs.items[i])

\* applyParsedData for an incoming document of any shape: the new data, or
\* the data as it was when the object literal throws before the assignment
applyParsedDocument(data, parsed) ==
    IF ReconcileThrows(parsed) THEN [threw |-> TRUE, data |-> data]
    ELSE [threw |-> FALSE,
          data |-> Obj(Overlay(Overlay(FieldsOf(data), FieldsOf(parsed)),
                     [calendarUrl |-> Or(Get(parsed, "calendarUrl"), Get(data, "calendarUrl")),
                      children |-> LET cs == Get(parsed, "children").items
                                   IN  Arr([i \in 1..Len(cs) |-> ReconciledChild(data, cs[i], i)]),
                      logs |-> LET ls == Get(parsed, "logs").items
                               IN  Arr([i \in 1..Len(ls) |-> ReconciledLog(data, ls[i], i)]),
                      historicalLogs |-> Or(Get(parsed, "historicalLogs"), Obj(NoKeys))]))]

\* the data of a device on its first run, and later with the settings of
\* the first child filled in and events logged
FreshLog ==
    Obj([feeds |-> Arr(<<>>), diapers |-> Arr(<<>>), meds |-> Arr(<<>>),
         medsDone |-> Obj(NoKeys), feedAmounts |-> Obj(NoKeys)])

FreshData ==
    Obj([children |-> Arr(<<Obj([name |-> Str("Emily"), medications |-> Arr(<<>>),
                                 feedSchedules |-> Arr(<<>>)]),
                            Obj([name |-> Str("Jimmy"), medications |-> Arr(<<>>),
                                 feedSchedules |-> Arr(<<>>)])>>),
         today |-> Null,
         logs |-> Arr(<<FreshLog, FreshLog>>),
         historicalLogs |-> Obj(NoKeys)])

KnownData ==
    Obj([children |-> Arr(<<Obj([name |-> Str("Emily"), birthDate |-> Str("2025-06-01"),
                                 weightKg |-> Num(4), weightDate |-> Str("2025-09-01"),
                                 medications |-> Arr(<<Obj([id |-> Str("m1"), name |-> Str("Iron"),
                                                            dosesPerDay |-> Num(1),
                                                            doseTimes |-> Arr(<<Str("08:00")>>)])>>),
                                 feedSchedules |-> Arr(<<>>)]),
                            Obj([name |-> Str("Jimmy"), medications |-> Arr(<<>>),
                                 feedSchedules |-> Arr(<<>>)])>>),
         today |-> Str("2025-09-02"),
         logs |-> Arr(<<Obj([feeds |-> Arr(<<Obj([text |-> Str("Feed 120mL"), id |-> Num(1)])>>),
                             diapers |-> Arr(<<Obj([type |-> Str("pee")])>>),
                             meds |-> Arr(<<Obj([medId |-> Str("m1"), doseIndex |-> Num(0)])>>),
                             medsDone |-> Obj([m1 |-> Arr(<<Num(0)>>)]),
                             feedAmounts |-> Obj(NoKeys)]),
                        FreshLog>>),
         historicalLogs |-> Obj(NoKeys)])

\* the key maps that hold the key name with one of the values, or lack it
Optional(name, values) == {NoKeys} \cup {[n \in {name} |-> v] : v \in values}

\* the objects built from one key map of each set
Combined(F, G) == {Overlay(f, g) : f \in F, g \in G}

\* incoming documents of a peer, an older build or a foreign writer of the
\* row: each part present and well-formed, absent, null or of another shape
IncomingChildren ==
    {Obj(f) : f \in Combined(Combined({[name |-> Str("Emily")]},
                                      Optional("birthDate", {Str(""), Str("2025-06-02")})),
                             Combined(Optional("weightKg", {Num(0), Num(5)}),
                                      Optional("medications",
                                               {Arr(<<Obj([id |-> Str("m1"), name |-> Str("Iron"),
                                                           dosesPerDay |-> Num(2)])>>),
                                                Arr(<<Null>>), Str("none")})))}
        \cup {Null}

IncomingLogs ==
    {Obj(f) : f \in Combined(Combined(Optional("feeds", {Arr(<<Obj([text |-> Str("Feed 90mL"),
                                                                    id |-> Num(2)])>>)}),
                                      Optional("diapers", {Arr(<<Obj([type |-> Str("poop")])>>),
                                                           Obj(NoKeys), Null})),
                             Optional("meds", {Arr(<<>>), Str("none"), Null}))}
        \cup {Null}

IncomingDocuments ==
    {Obj(f) : f \in Combined(Combined({[today |-> Str("2025-09-02")]},
                                      Optional("children",
                                               {Arr(<<c>>) : c \in IncomingChildren}
                                                   \cup {Arr(<<>>), Null, Obj(NoKeys)})),
                             Combined(Optional("logs",
                                               {Arr(<<l, FreshLog>>) : l \in IncomingLogs}
                                                   \cup {Null, Str("[]")}),
                                      Optional("historicalLogs", {Obj(NoKeys)})))}

\* ---------------------------------------------------------------- state
VARIABLES
    now,       \* the wall clock, [date, ms]
    client,    \* per device: the module state of tracker.ts and supabase.ts
    remote,    \* the shared row of tracker_data
    requests,  \* upserts issued and not yet returned to their device
    inbox,     \* per device: change notifications sent and not yet delivered
    api,       \* calls of the feeds endpoint between their fetch and their upsert
    lastOp,    \* the handler that ran last, with what it did to the page
    used       \* how much of each bound the run has consumed; whether a push
               \* was never stored (unstored); whether a device has skipped a
               \* notification whose document it lacks (skipped)

vars == <<now, client, remote, requests, inbox, api, lastOp, used>>

\* what one handler run did besides changing the module state; rolled: the
\* body of checkNewDay ran (the logs were archived and reset); reports: the
\* connection statuses handed to the status callback, in order; delays: the
\* delays of the reconnect timers started, in order
NoFx == [branch |-> "none", rendered |-> FALSE, toast |-> FALSE, upserts |-> 0, rolled |-> FALSE,
         reports |-> <<>>, delays |-> <<>>,
         layout |-> <<>>, hourHeight |-> 0, childIndex |-> 0]

Branch(s, b) == [s EXCEPT !.fx.branch = b]

\* updateSyncStatus of tracker.ts: the class of the sync status element
updateSyncStatus(s, status) == [s EXCEPT !.syncStatus = status]

\* ----------------------------------------------------------- supabase.ts
\* handleConnectionStatus of setupRealtimeSync
handleConnectionStatus(s, status) ==
    CASE status = "connected" -> updateSyncStatus(s, "realtime")
      [] status = "connecting" -> updateSyncStatus(s, "syncing")
      [] status = "disconnected" -> updateSyncStatus(s, "error")
      [] status = "error" -> updateSyncStatus(s, "error")

\* statusCallback?.(status): connectionStatus is the status reported last
statusCallback(s, status) ==
    [handleConnectionStatus(s, status) EXCEPT
        !.connectionStatus = status, !.fx.reports = Append(@, status)]

RECURSIVE Pow2(_)
Pow2(n) == IF n = 0 THEN 1 ELSE 2 * Pow2(n - 1)

Min(a, b) == IF a < b THEN a ELSE b

getReconnectDelay_uncapped(s) == BASE_RECONNECT_DELAY * Pow2(s.reconnectAttempts)

getReconnectDelay(s) == Min(BASE_RECONNECT_DELAY * Pow2(s.reconnectAttempts), MAX_RECONNECT_DELAY)

\* reconnectTimeout holds the deadline of the pending reconnect timer,
\* NullTime when none is pending
scheduleReconnect(s, t) ==
    [statusCallback(s, "disconnected") EXCEPT
        !.reconnectAttempts = @ + 1,
        !.reconnectTimeout = AddMs(t, getReconnectDelay(s)),
        !.fx.delays = Append(@, getReconnectDelay(s))]

\* supabase.removeChannel(realtimeChannel): the channel leaves and reports
\* CLOSED to its subscribe callback some time later; removed counts the
\* channels that have left and not reported yet
removeChannel(s) ==
    IF s.realtimeChannel = "null" THEN s
    ELSE [s EXCEPT !.removed = Min(@ + 1, MaxRemoved)]

\* realtimeChannel is the state of the current channel object, "null" when
\* the variable holds no channel
subscribeToChanges(s) ==
    IF ~s.supabase THEN s
    ELSE [statusCallback(removeChannel([s EXCEPT !.storedCallback = TRUE]), "connecting") EXCEPT
             !.realtimeChannel = "joining"]

\* the callback given to subscribe(), for each status the channel reports
onChannelStatus(s, t, status) ==
    CASE status = "SUBSCRIBED" ->
            [statusCallback(s, "connected") EXCEPT
                !.reconnectAttempts = 0, !.reconnectTimeout = NullTime,
                !.realtimeChannel = "joined"]
      [] status = "CHANNEL_ERROR" ->
            scheduleReconnect([statusCallback(s, "error") EXCEPT !.realtimeChannel = "errored"], t)
      [] status = "TIMED_OUT" ->
            scheduleReconnect([statusCallback(s, "error") EXCEPT !.realtimeChannel = "errored"], t)
      [] status = "CLOSED" ->
            LET closed == [statusCallback(s, "disconnected") EXCEPT !.realtimeChannel = "closed"]
            IN  IF s.storedCallback THEN scheduleReconnect(closed, t) ELSE closed

\* the callback of the reconnect timer
reconnectNow(s) ==
    LET fired == [s EXCEPT !.reconnectTimeout = NullTime]
    IN  IF s.storedCallback
        THEN subscribeToChanges(statusCallback(fired, "connecting"))
        ELSE fired

\* the CLOSED case of the subscribe callback, run for a channel that was
\* removed: realtimeChannel holds another channel or none
onRemovedChannelClosed(s, t) ==
    LET closed == statusCallback([s EXCEPT !.removed = @ - 1], "disconnected")
    IN  IF s.storedCallback THEN scheduleReconnect(closed, t) ELSE closed

unsubscribeFromChanges_keepsTimer(s) ==
    statusCallback([removeChannel(s) EXCEPT
                       !.storedCallback = FALSE, !.realtimeChannel = "null"], "disconnected")

unsubscribeFromChanges(s) ==
    statusCallback([removeChannel(s) EXCEPT
                       !.storedCallback = FALSE, !.reconnectTimeout = NullTime,
                       !.realtimeChannel = "null"], "disconnected")

forceReconnect_keepsAttempts(s) ==
    IF ~s.storedCallback THEN s
    ELSE subscribeToChanges(statusCallback(
            [removeChannel(s) EXCEPT !.reconnectTimeout = NullTime,
                                     !.realtimeChannel = "null"], "connecting"))

forceReconnect(s) ==
    IF ~s.storedCallback THEN s
    ELSE subscribeToChanges(statusCallback(
            [removeChannel(s) EXCEPT !.reconnectAttempts = 0, !.reconnectTimeout = NullTime,
                                     !.realtimeChannel = "null"], "connecting"))

\* ------------------------------------------------------ tracker.ts: sync

\* a save that schedules the push and leaves the cache alone
saveData_remoteOnly(s, t) ==
    IF s.isApplyingRemoteUpdate THEN s
    ELSE IF ~s.supabase THEN updateSyncStatus(s, "offline")
    ELSE [updateSyncStatus(s, "syncing") EXCEPT
             !.pushTimers = (@ \ {s.saveTimeout}) \cup {AddMs(t, SAVE_DEBOUNCE_MS)},
             !.saveTimeout = AddMs(t, SAVE_DEBOUNCE_MS)]

\* a save that writes the cache and leaves the remote row alone
saveData_cacheOnly(s, t) == [s EXCEPT !.localStorage = Stringify(s.data)]

\* a save that starts its timer without clearing the one that is pending
saveData_noClear(s, t) ==
    LET saved == [s EXCEPT !.localStorage = Stringify(s.data)]
    IN  IF s.isApplyingRemoteUpdate THEN saved
        ELSE IF ~s.supabase THEN updateSyncStatus(saved, "offline")
        ELSE [updateSyncStatus(saved, "syncing") EXCEPT
                 !.pushTimers = @ \cup {AddMs(t, SAVE_DEBOUNCE_MS)},
                 !.saveTimeout = AddMs(t, SAVE_DEBOUNCE_MS)]

\* a save that schedules the push whether or not a remote store is configured
saveData_noCapabilityCheck(s, t) ==
    LET saved == [s EXCEPT !.localStorage = Stringify(s.data)]
    IN  IF s.isApplyingRemoteUpdate THEN saved
        ELSE [updateSyncStatus(saved, "syncing") EXCEPT
                 !.pushTimers = (@ \ {s.saveTimeout}) \cup {AddMs(t, SAVE_DEBOUNCE_MS)},
                 !.saveTimeout = AddMs(t, SAVE_DEBOUNCE_MS)]

\* a save that schedules the push also while a remote update is applied
saveData_pushesWhileApplying(s, t) ==
    LET saved == [s EXCEPT !.localStorage = Stringify(s.data)]
    IN  IF ~s.supabase THEN updateSyncStatus(saved, "offline")
        ELSE [updateSyncStatus(saved, "syncing") EXCEPT
                 !.pushTimers = (@ \ {s.saveTimeout}) \cup {AddMs(t, SAVE_DEBOUNCE_MS)},
                 !.saveTimeout = AddMs(t, SAVE_DEBOUNCE_MS)]

\* pushTimers holds the deadlines of the push timers that were started and
\* have neither run nor been cleared; saveTimeout is the handle of the timer
\* started last, by its deadline (clearTimeout of a timer that already ran
\* does nothing)
saveData(s, t) ==
    LET saved == [s EXCEPT !.localStorage = Stringify(s.data)]
    IN  IF s.isApplyingRemoteUpdate THEN saved
        ELSE IF ~s.supabase THEN updateSyncStatus(saved, "offline")
        ELSE [updateSyncStatus(saved, "syncing") EXCEPT
                 !.pushTimers = (@ \ {s.saveTimeout}) \cup {AddMs(t, SAVE_DEBOUNCE_MS)},
                 !.saveTimeout = AddMs(t, SAVE_DEBOUNCE_MS)]

\* a rollover that resets the live logs without archiving them
checkNewDay_noArchive(s, t) ==
    IF s.data.today # getDateKey(t)
    THEN saveData([s EXCEPT !.data.today = getDateKey(t), !.data.logs = EmptyLogs,
                            !.viewingDate = getDateKey(t), !.fx.rolled = TRUE], t)
    ELSE s

checkNewDay(s, t) ==
    IF s.data.today # getDateKey(t)
    THEN saveData([s EXCEPT !.data = RolledOver(s.data, getDateKey(t)),
                            !.viewingDate = getDateKey(t), !.fx.rolled = TRUE], t)
    ELSE s

isViewingToday(s, t) == s.viewingDate = getDateKey(t)

\* renderedToday is the viewingToday the page was last rendered with: it
\* decides which buttons and drag handles the page offers
updateDisplay(s, t) ==
    LET checked == checkNewDay(s, t)
    IN  [checked EXCEPT !.fx.rendered = TRUE, !.renderedToday = isViewingToday(checked, t)]

showSyncToast(s) == [s EXCEPT !.fx.toast = TRUE]

\* the handler without its timestamp comparison: only the time window is left
onRealtimeChange_noEqualityGate(s, t, payload) ==
    IF payload.eventType \notin {"UPDATE", "INSERT"} THEN Branch(s, "ignored")
    ELSE IF ElapsedMs(t, s.lastSaveTimestamp) < ECHO_WINDOW_MS
    THEN Branch([s EXCEPT !.lastKnownUpdatedAt = payload.updated_at], "echo")
    ELSE LET marked == [s EXCEPT !.lastKnownUpdatedAt = payload.updated_at,
                                  !.isApplyingRemoteUpdate = TRUE]
             applied == [marked EXCEPT !.data = applyParsedData(s.data, payload.data)]
             cached == [applied EXCEPT !.localStorage = Stringify(applied.data)]
             shown == showSyncToast(updateDisplay(cached, t))
         IN  Branch([updateSyncStatus(shown, "realtime") EXCEPT
                        !.isApplyingRemoteUpdate = FALSE], "applied")

\* the handler without its time window: only the timestamp comparison is left
onRealtimeChange_noWindow(s, t, payload) ==
    IF payload.eventType \notin {"UPDATE", "INSERT"} THEN Branch(s, "ignored")
    ELSE IF payload.updated_at = s.lastKnownUpdatedAt
    THEN Branch(s, "same")
    ELSE LET marked == [s EXCEPT !.lastKnownUpdatedAt = payload.updated_at,
                                  !.isApplyingRemoteUpdate = TRUE]
             applied == [marked EXCEPT !.data = applyParsedData(s.data, payload.data)]
             cached == [applied EXCEPT !.localStorage = Stringify(applied.data)]
             shown == showSyncToast(updateDisplay(cached, t))
         IN  Branch([updateSyncStatus(shown, "realtime") EXCEPT
                        !.isApplyingRemoteUpdate = FALSE], "applied")

\* the callback setupRealtimeSync hands to subscribeToChanges
onRealtimeChange(s, t, payload) ==
    IF payload.eventType \notin {"UPDATE", "INSERT"} THEN Branch(s, "ignored")
    ELSE IF ElapsedMs(t, s.lastSaveTimestamp) < ECHO_WINDOW_MS
    THEN Branch([s EXCEPT !.lastKnownUpdatedAt = payload.updated_at], "echo")
    ELSE IF payload.updated_at = s.lastKnownUpdatedAt
    THEN Branch(s, "same")
    ELSE LET marked == [s EXCEPT !.lastKnownUpdatedAt = payload.updated_at,
                                  !.isApplyingRemoteUpdate = TRUE]
             applied == [marked EXCEPT !.data = applyParsedData(s.data, payload.data)]
             cached == [applied EXCEPT !.localStorage = Stringify(applied.data)]
             shown == showSyncToast(updateDisplay(cached, t))
         IN  Branch([updateSyncStatus(shown, "realtime") EXCEPT
                        !.isApplyingRemoteUpdate = FALSE], "applied")

\* the body of the debounced timer, up to the await of the upsert
pushNow(s, t) ==
    [s EXCEPT !.pushTimers = @ \ {t},
              !.lastSaveTimestamp = t,
              !.lastKnownUpdatedAt = t,
              !.fx.upserts = 1]

\* -------------------------------------------------- tracker.ts: logging
FeedEvent(t) ==
    [text |-> "Feed 120mL", time |-> toLocaleTimeString(t), id |-> t, timestamp |-> t]

\* a logFeed that waits for a connected remote store
logFeed_whenConnected(s, t, c) ==
    IF ~isViewingToday(s, t) \/ s.syncStatus # "realtime" THEN Branch(s, "ignored")
    ELSE LET pushed == [s EXCEPT !.data.logs[c].feeds = Append(@, FeedEvent(t))]
         IN  Branch(updateDisplay(saveData(pushed, t), t), "logged")

logFeed(s, t, c) ==
    IF ~isViewingToday(s, t) THEN Branch(s, "ignored")
    ELSE LET pushed == [s EXCEPT !.data.logs[c].feeds = Append(@, FeedEvent(t))]
         IN  Branch(updateDisplay(saveData(pushed, t), t), "logged")

logDiaper(s, t, c, type) ==
    IF ~isViewingToday(s, t) THEN Branch(s, "ignored")
    ELSE LET entry == [type |-> type, time |-> toLocaleTimeString(t), timestamp |-> t]
             pushed == [s EXCEPT !.data.logs[c].diapers = Append(@, entry)]
         IN  Branch(updateDisplay(saveData(pushed, t), t), "logged")

\* the MedLog of a dose: stamped with the scheduled dose time of today
MedEvent(med, doseIndex, t) ==
    LET doseDate == setHours(t, med.doseTimes[doseIndex + 1].hour, med.doseTimes[doseIndex + 1].min)
    IN  [medId |-> med.id, medName |-> med.name, doseIndex |-> doseIndex,
         time |-> toLocaleTimeString(doseDate), timestamp |-> doseDate]

DoneList(log, medId) == IF HasKey(log.medsDone, medId) THEN log.medsDone[medId] ELSE <<>>

FindMed(medications, medId) ==
    LET hits == {i \in 1..Len(medications) : medications[i].id = medId}
    IN  IF hits = {} THEN 0 ELSE CHOOSE i \in hits : \A j \in hits : i <= j

giveMed(s, t, c, medId, doseIndex) ==
    IF ~isViewingToday(s, t) THEN Branch(s, "ignored")
    ELSE IF Includes(DoneList(s.data.logs[c], medId), doseIndex)
    THEN Branch(s, "ignored")
    ELSE LET log == s.data.logs[c]
             m == FindMed(s.data.children[c].medications, medId)
             done == Put(log.medsDone, medId, Append(DoneList(log, medId), doseIndex))
             meds == IF m = 0 THEN log.meds
                     ELSE Append(log.meds, MedEvent(s.data.children[c].medications[m], doseIndex, t))
             given == [s EXCEPT !.data.logs[c].medsDone = done, !.data.logs[c].meds = meds]
         IN  Branch(updateDisplay(saveData(given, t), t), "logged")

\* the first medication of the child whose urgency text says "late"
FirstLate(medications, log, t) ==
    LET late == {i \in 1..Len(medications) :
                    LET u == getMedUrgency(medications[i], log, t)
                    IN  u.text.kind = "late" /\ u.nextDose.index # -1}
    IN  IF late = {} THEN 0 ELSE CHOOSE i \in late : \A j \in late : i <= j

addOverdueMed(s, t, c) ==
    LET log == s.data.logs[c]
        m == FirstLate(s.data.children[c].medications, log, t)
    IN  IF m = 0 THEN Branch(s, "ignored")
        ELSE LET med == s.data.children[c].medications[m]
                 doseIndex == getMedUrgency(med, log, t).nextDose.index
                 done == Put(log.medsDone, med.id, Append(DoneList(log, med.id), doseIndex))
                 given == [s EXCEPT !.data.logs[c].medsDone = done,
                                    !.data.logs[c].meds = Append(@, MedEvent(med, doseIndex, t))]
             IN  Branch(updateDisplay(saveData(given, t), t), "logged")

\* ------------------------------------------------ tracker.ts: the planner
getViewingLogs(s, t) ==
    IF isViewingToday(s, t) THEN s.data.logs
    ELSE IF HasKey(s.data.historicalLogs, s.viewingDate)
    THEN s.data.historicalLogs[s.viewingDate]
    ELSE EmptyLogs

\* the filters of deleteEventFromPlanner on one DayLog
DeletedFrom(log, eventType, timestamp) ==
    IF eventType = "feed"
    THEN [log EXCEPT !.feeds = SelectSeq(@, LAMBDA f : f.timestamp # timestamp)]
    ELSE IF eventType \in {"pee", "poop"}
    THEN [log EXCEPT !.diapers =
             SelectSeq(@, LAMBDA e : ~(e.type = eventType /\ e.timestamp = timestamp))]
    ELSE LET hits == {i \in 1..Len(log.meds) : log.meds[i].timestamp = timestamp}
         IN  IF hits = {} THEN log
             ELSE LET medEntry == log.meds[CHOOSE i \in hits : \A j \in hits : i <= j]
                      meds == SelectSeq(log.meds, LAMBDA e : e.timestamp # timestamp)
                      left == SelectSeq(DoneList(log, medEntry.medId),
                                     LAMBDA idx : idx # medEntry.doseIndex)
                      done == IF ~HasKey(log.medsDone, medEntry.medId) THEN log.medsDone
                              ELSE IF Len(left) = 0 THEN Delete(log.medsDone, medEntry.medId)
                              ELSE Put(log.medsDone, medEntry.medId, left)
                  IN  [log EXCEPT !.meds = meds, !.medsDone = done]

\* getViewingLogs gives the live logs, the archived logs of the viewed date,
\* or a fresh pair of empty logs that belongs to no document
deleteEventFromPlanner(s, t, c, eventType, timestamp) ==
    LET key == s.viewingDate
        edited ==
            IF isViewingToday(s, t)
            THEN [s EXCEPT !.data.logs[c] = DeletedFrom(@, eventType, timestamp)]
            ELSE IF HasKey(s.data.historicalLogs, key)
            THEN [s EXCEPT !.data.historicalLogs[key][c] = DeletedFrom(@, eventType, timestamp)]
            ELSE s
    IN  Branch(updateDisplay(saveData(edited, t), t), "deleted")

NoDrag == [active |-> FALSE, childIndex |-> 0, type |-> "none", originalIndex |-> 0,
           timestamp |-> NullTime, originalHour |-> 0, originalMinute |-> 0]

\* the events of the live logs as getTimelineEvents lists them, with the hour
\* and minute the page holds for each (read back from the time string)
toLowerCase(str) ==
    [i \in 1..Len(str) |->
        CASE str[i] = "A" -> "a" [] str[i] = "P" -> "p" [] str[i] = "M" -> "m"
          [] OTHER -> str[i]]

\* String.prototype.includes
StrIncludes(str, sub) ==
    \E i \in 1..(Len(str) - Len(sub) + 1) : SubSeq(str, i, i + Len(sub) - 1) = sub

\* const [hourStr, rest] = time.split(':'): the text before the first colon
\* and the text between the first and the second colon (undefined, here the
\* empty text, when there is no colon)
Colons(str) == {i \in 1..Len(str) : str[i] = ":"}
hourStr(time) ==
    IF Colons(time) = {} THEN time
    ELSE SubSeq(time, 1, (CHOOSE i \in Colons(time) : \A j \in Colons(time) : i <= j) - 1)
rest(time) ==
    IF Colons(time) = {} THEN <<>>
    ELSE LET first == CHOOSE i \in Colons(time) : \A j \in Colons(time) : i <= j
             later == {i \in Colons(time) : i > first} \cup {Len(time) + 1}
             second == CHOOSE i \in later : \A j \in later : i <= j
         IN  SubSeq(time, first + 1, second - 1)

\* parseInt: leading blanks are skipped, the digits up to the first other
\* character are read; NaN stands for the result without any digit
NaN == 0 - 1
RECURSIVE DigitsValue(_, _)
DigitsValue(str, n) ==
    IF n = 0 THEN 0 ELSE DigitsValue(str, n - 1) * 10 + DigitValue(str[n])
parseInt(str) ==
    LET blanks == Cardinality({k \in 1..Len(str) : \A j \in 1..k : str[j] = " "})
        text == SubSeq(str, blanks + 1, Len(str))
        n == Cardinality({k \in 1..Len(text) : \A j \in 1..k : IsDigit(text[j])})
    IN  IF n = 0 THEN NaN ELSE DigitsValue(text, n)

\* the hour read with the AM/PM marker looked for in the string as written
ParseDisplayHour_caseSensitive(time) ==
    LET isPM == StrIncludes(time, <<"p", "m">>)
        isAM == StrIncludes(time, <<"a", "m">>)
        hour == parseInt(hourStr(time))
        afterPM == IF hour # NaN /\ isPM /\ hour # 12 THEN hour + 12 ELSE hour
    IN  IF isAM /\ afterPM = 12 THEN 0 ELSE afterPM

ParseDisplayHour(time) ==
    LET isPM == StrIncludes(toLowerCase(time), <<"p", "m">>)
        isAM == StrIncludes(toLowerCase(time), <<"a", "m">>)
        hour == parseInt(hourStr(time))
        afterPM == IF hour # NaN /\ isPM /\ hour # 12 THEN hour + 12 ELSE hour
    IN  IF isAM /\ afterPM = 12 THEN 0 ELSE afterPM

\* parseInt(rest) || 0
ParseDisplayMinute(time) ==
    LET minute == parseInt(rest(time)) IN IF minute = NaN THEN 0 ELSE minute

TimelineEntry(type, index, e) ==
    [type |-> type, originalIndex |-> index, timestamp |-> e.timestamp,
     hour |-> ParseDisplayHour(e.time), minute |-> ParseDisplayMinute(e.time)]

getTimelineEvents(log) ==
    {TimelineEntry("feed", i, log.feeds[i]) : i \in 1..Len(log.feeds)}
    \cup {TimelineEntry("med", i, log.meds[i]) : i \in 1..Len(log.meds)}
    \cup {TimelineEntry(log.diapers[i].type, i, log.diapers[i]) : i \in 1..Len(log.diapers)}

\* the array getTimelineEvents returns: feeds, meds and diapers pushed in
\* that order, then sorted by timestamp (the sort keeps the order of equals)
InsertedByTimestamp(sorted, e) ==
    LET k == Cardinality({i \in 1..Len(sorted) : ElapsedMs(sorted[i].timestamp, e.timestamp) <= 0})
    IN  SubSeq(sorted, 1, k) \o <<e>> \o SubSeq(sorted, k + 1, Len(sorted))

RECURSIVE SortedByTimestamp(_, _)
SortedByTimestamp(events, n) ==
    IF n = 0 THEN <<>>
    ELSE InsertedByTimestamp(SortedByTimestamp(events, n - 1), events[n])

TimelineEventList(log) ==
    LET pushed ==
            [i \in 1..Len(log.feeds) |-> TimelineEntry("feed", i, log.feeds[i])]
            \o [i \in 1..Len(log.meds) |-> TimelineEntry("med", i, log.meds[i])]
            \o [i \in 1..Len(log.diapers) |-> TimelineEntry(log.diapers[i].type, i, log.diapers[i])]
    IN  SortedByTimestamp(pushed, Len(pushed))

\* (hour + minute / 60) * hourHeight, in sixtieths of a pixel
PositionY(e, hourHeight) == (60 * e.hour + e.minute) * hourHeight
EventHeightY == EVENT_HEIGHT * 60

InsertedByPosition(sorted, e, hourHeight) ==
    LET k == Cardinality({i \in 1..Len(sorted) :
                             PositionY(sorted[i], hourHeight) <= PositionY(e, hourHeight)})
    IN  SubSeq(sorted, 1, k) \o <<e>> \o SubSeq(sorted, k + 1, Len(sorted))

RECURSIVE sortedEvents(_, _, _)
sortedEvents(events, hourHeight, n) ==
    IF n = 0 THEN <<>>
    ELSE InsertedByPosition(sortedEvents(events, hourHeight, n - 1), events[n], hourHeight)

\* an end position taken from the first event of the group alone
groupEndY_ofFirst(group, hourHeight) == PositionY(group[1], hourHeight) + EventHeightY

\* Math.max over the group of position + eventHeight
groupEndY(group, hourHeight) ==
    LET ends == {PositionY(group[i], hourHeight) + EventHeightY : i \in 1..Len(group)}
    IN  CHOOSE y \in ends : \A z \in ends : z <= y

\* the groups after the first n events of the sweep, the current group last
RECURSIVE groups(_, _, _)
groups(sorted, hourHeight, n) ==
    IF n = 0 THEN <<>>
    ELSE LET before == groups(sorted, hourHeight, n - 1)
             event == sorted[n]
         IN  IF before = <<>> THEN <<<<event>>>>
             ELSE LET currentGroup == before[Len(before)]
                  IN  IF PositionY(event, hourHeight) < groupEndY(currentGroup, hourHeight)
                      THEN [before EXCEPT ![Len(before)] = Append(currentGroup, event)]
                      ELSE Append(before, <<event>>)

\* the entries of the result map, in the order they are set
RECURSIVE ColumnsOf(_, _)
ColumnsOf(gs, n) ==
    IF n = 0 THEN <<>>
    ELSE ColumnsOf(gs, n - 1) \o
         [index \in 1..Len(gs[n]) |->
             [event |-> gs[n][index], column |-> index - 1, totalColumns |-> Len(gs[n])]]

calculateEventColumns(events, hourHeight) ==
    LET sorted == sortedEvents(events, hourHeight, Len(events))
        gs == groups(sorted, hourHeight, Len(sorted))
    IN  ColumnsOf(gs, Len(gs))

\* the layout part of renderPlanner
renderPlanner(s, t, childIndex, hourHeight) ==
    [s EXCEPT !.fx.layout = calculateEventColumns(
                                TimelineEventList(getViewingLogs(s, t)[childIndex]), hourHeight),
              !.fx.hourHeight = hourHeight,
              !.fx.childIndex = childIndex,
              !.fx.branch = "rendered"]

startDragging(s, c, ev) ==
    Branch([s EXCEPT !.dragState =
        [active |-> TRUE, childIndex |-> c, type |-> ev.type,
         originalIndex |-> ev.originalIndex, timestamp |-> ev.timestamp,
         originalHour |-> ev.hour, originalMinute |-> ev.minute]], "dragging")

\* Math.round(totalMinutes / 5) * 5
RoundTo5(x) == ((2 * x + 5) \div 10) * 5
Clamp(lo, x, hi) == IF x < lo THEN lo ELSE IF x > hi THEN hi ELSE x

Retimed(e, event, newHour, newMinute) ==
    [e EXCEPT !.time = DisplayTime(newHour, newMinute),
              !.timestamp = setHours(event.timestamp, newHour, newMinute)]

updateEventTime(s, t, c, event, newHour, newMinute) ==
    LET i == event.originalIndex
        log == s.data.logs[c]
        field == CASE event.type = "feed" -> "feeds"
                   [] event.type = "med" -> "meds"
                   [] OTHER -> "diapers"
        moved == IF i \in 1..Len(log[field])
                 THEN [s EXCEPT !.data.logs[c][field][i] = Retimed(@, event, newHour, newMinute)]
                 ELSE s
    IN  saveData(moved, t)

endDragging(s, t, deltaMinutes) ==
    IF ~s.dragState.active THEN Branch(s, "ignored")
    ELSE LET drag == s.dragState
             total == RoundTo5(Clamp(0, drag.originalHour * 60 + drag.originalMinute + deltaMinutes,
                                     23 * 60 + 59))
             newHour == total \div 60
             newMinute == total % 60
             dropped == IF newHour # drag.originalHour \/ newMinute # drag.originalMinute
                        THEN updateEventTime(s, t, drag.childIndex, drag, newHour, newMinute)
                        ELSE s
         IN  Branch(updateDisplay([dropped EXCEPT !.dragState = NoDrag], t),
                    IF dropped = s THEN "unmoved" ELSE "moved")

navigateDate(s, t, delta) ==
    IF s.viewingDate + delta > getDateKey(t) THEN Branch(s, "ignored")
    ELSE Branch(updateDisplay([s EXCEPT !.viewingDate = @ + delta], t), "navigated")

\* ----------------------------------------------- tracker.ts: the settings
\* Date.now().toString() as the id of a new medication
NewMedId(t) == ToString(t.date) \o "-" \o ToString(t.ms)

saveMedication(s, t, c, name, doseTimes) ==
    IF name = "" THEN Branch(s, "ignored")
    ELSE LET med == [id |-> NewMedId(t), name |-> name,
                     dosesPerDay |-> Len(doseTimes), doseTimes |-> doseTimes]
             added == [s EXCEPT !.data.children[c].medications = Append(@, med)]
         IN  Branch(updateDisplay(saveData(added, t), t), "saved")

removeMed(s, t, c, medId) ==
    LET removed == [s EXCEPT !.data.children[c].medications =
                       SelectSeq(@, LAMBDA m : m.id # medId)]
    IN  Branch(updateDisplay(saveData(removed, t), t), "removed")

\* each input overwrites its field only when it is filled in
saveChildSettings(s, t, c, name, weight, weightDate, birthDate) ==
    LET child == s.data.children[c]
        edited == [child EXCEPT
                      !.name = IF name # "" THEN name ELSE @,
                      !.weightKg = IF weight > 0 THEN weight ELSE @,
                      !.weightDate = IF weightDate # "" THEN weightDate ELSE @,
                      !.birthDate = IF birthDate # "" THEN birthDate ELSE @]
    IN  Branch(updateDisplay(saveData([s EXCEPT !.data.children[c] = edited], t), t), "saved")

\* ------------------------------------------------------------- actions
\* lastOp names the handler that ran last and its effects on the page; a step
\* taken outside the devices (the clock, the database, the endpoint) leaves
\* Elsewhere
Elsewhere == [dev |-> "none", op |-> "none", fx |-> NoFx]

Ran(d, op, s) ==
    /\ client' = [client EXCEPT ![d] = [s EXCEPT !.fx = NoFx]]
    /\ lastOp' = [dev |-> d, op |-> op, fx |-> s.fx]

\* used.actions counts down the user actions the run still takes, on the
\* devices and through the endpoint
Mutation == used.actions > 0
CountMutation == used' = [used EXCEPT !.actions = @ - 1]

LogFeed(d, c) ==
    /\ Mutation
    /\ Ran(d, "logFeed", logFeed(client[d], now, c))
    /\ CountMutation
    /\ UNCHANGED <<now, remote, requests, inbox, api>>

\* the push timer of saveData runs: the upsert is issued with the document
\* as it is now
SaveTimerFires(d) ==
    /\ now \in client[d].pushTimers
    /\ Ran(d, "push", pushNow(client[d], now))
    /\ requests' = requests \cup
          {[from |-> d, data |-> client[d].data, updated_at |-> now]}
    /\ UNCHANGED <<now, remote, inbox, api, used>>

\* the change notification of a stored row; updated_at comes back as the
\* text that was written; from names the writer of the row, which no handler
\* reads
Notification(r) ==
    [eventType |-> IF remote.exists THEN "UPDATE" ELSE "INSERT",
     data |-> r.data, updated_at |-> r.updated_at, from |-> r.from]

\* a result handling that starts a new push timer when the upsert fails
upsertReturned_retries(s, ok) ==
    IF ok THEN Branch(updateSyncStatus(s, "realtime"), "ok")
    ELSE Branch([updateSyncStatus(s, "error") EXCEPT
                    !.pushTimers = @ \cup {AddMs(s.lastSaveTimestamp, SAVE_DEBOUNCE_MS)},
                    !.saveTimeout = AddMs(s.lastSaveTimestamp, SAVE_DEBOUNCE_MS)], "error")

\* the awaited upsert comes back to its device: the row is stored and every
\* device whose channel is joined is notified, the sender included (stored),
\* or the request fails before the row is written; the device sees no error
\* only if the row was stored (an answer can be lost on the way back)
upsertReturned(s, ok) ==
    IF ok THEN Branch(updateSyncStatus(s, "realtime"), "ok")
    ELSE Branch(updateSyncStatus(s, "error"), "error")

UpsertReturns(r, stored, ok) ==
    /\ ok => stored
    /\ Ran(r.from, "pushResult", upsertReturned(client[r.from], ok))
    /\ requests' = requests \ {r}
    /\ remote' = IF stored THEN [exists |-> TRUE, data |-> r.data, updated_at |-> r.updated_at]
                  ELSE remote
    /\ inbox' = [d \in Devices |->
                    IF stored /\ client[d].realtimeChannel = "joined"
                    THEN Append(inbox[d], Notification(r)) ELSE inbox[d]]
    /\ used' = [used EXCEPT !.unstored = @ \/ ~stored]
    /\ UNCHANGED <<now, api>>

\* the handler run on s leaves a document aside that s does not hold
Skips(s, t, payload) ==
    /\ onRealtimeChange(s, t, payload).fx.branch \in {"echo", "same"}
    /\ payload.data # s.data

\* the channel hands the oldest undelivered notification to the callback
Deliver(d) ==
    /\ inbox[d] # <<>>
    /\ Ran(d, "onChange", onRealtimeChange(client[d], now, Head(inbox[d])))
    /\ inbox' = [inbox EXCEPT ![d] = Tail(@)]
    /\ used' = [used EXCEPT !.skipped = @ \/ Skips(client[d], now, Head(inbox[d]))]
    /\ UNCHANGED <<now, remote, requests, api>>

\* at-least-once delivery: the same notification is handed over again later
DeliverTwice(d) ==
    /\ inbox[d] # <<>>
    /\ used.duplicates < MaxDuplicates
    /\ Ran(d, "onChange", onRealtimeChange(client[d], now, Head(inbox[d])))
    /\ used' = [used EXCEPT !.duplicates = @ + 1,
                            !.skipped = @ \/ Skips(client[d], now, Head(inbox[d]))]
    /\ UNCHANGED <<now, remote, requests, inbox, api>>

LogDiaper(d, c, type) ==
    /\ Mutation
    /\ Ran(d, "logDiaper", logDiaper(client[d], now, c, type))
    /\ CountMutation
    /\ UNCHANGED <<now, remote, requests, inbox, api>>

\* a click on a medication button: the page passes the next dose it rendered
GiveMed(d, c, m) ==
    LET med == client[d].data.children[c].medications[m]
        urgency == getMedUrgency(med, client[d].data.logs[c], now)
    IN  /\ Mutation
        /\ client[d].renderedToday
        /\ urgency.status # "done"
        /\ Ran(d, "giveMed", giveMed(client[d], now, c, med.id, urgency.nextDose.index))
        /\ CountMutation
        /\ UNCHANGED <<now, remote, requests, inbox, api>>

AddOverdueMed(d, c) ==
    /\ Mutation
    /\ Ran(d, "addOverdueMed", addOverdueMed(client[d], now, c))
    /\ CountMutation
    /\ UNCHANGED <<now, remote, requests, inbox, api>>

\* a click on the delete button of an event the page shows
DeleteEventFromPlanner(d, c, ev) ==
    /\ Mutation
    /\ client[d].renderedToday
    /\ ~client[d].dragState.active
    /\ Ran(d, "deleteEventFromPlanner",
           deleteEventFromPlanner(client[d], now, c, ev.type, ev.timestamp))
    /\ CountMutation
    /\ UNCHANGED <<now, remote, requests, inbox, api>>

\* window.deleteEventFromPlanner called for an event of the logs in view,
\* whatever the page has rendered
DeleteEventCalled(d, c, ev) ==
    /\ Mutation
    /\ ~client[d].dragState.active
    /\ Ran(d, "deleteEventFromPlanner",
           deleteEventFromPlanner(client[d], now, c, ev.type, ev.timestamp))
    /\ CountMutation
    /\ UNCHANGED <<now, remote, requests, inbox, api>>

StartDragging(d, c, ev) ==
    /\ Mutation
    /\ client[d].renderedToday
    /\ ~client[d].dragState.active
    /\ Ran(d, "startDragging", startDragging(client[d], c, ev))
    /\ CountMutation
    /\ UNCHANGED <<now, remote, requests, inbox, api>>

EndDragging(d, deltaMinutes) ==
    /\ client[d].dragState.active
    /\ Ran(d, "endDragging", endDragging(client[d], now, deltaMinutes))
    /\ UNCHANGED <<now, remote, requests, inbox, api, used>>

DragDeltas == {0 - 65, 900}

SaveMedication(d, c) ==
    /\ Mutation
    /\ Ran(d, "saveMedication", saveMedication(client[d], now, c, "Vitamin D", <<DoseTime(9, 30)>>))
    /\ CountMutation
    /\ UNCHANGED <<now, remote, requests, inbox, api>>

RemoveMed(d, c, m) ==
    /\ Mutation
    /\ Ran(d, "removeMed", removeMed(client[d], now, c, client[d].data.children[c].medications[m].id))
    /\ CountMutation
    /\ UNCHANGED <<now, remote, requests, inbox, api>>

SettingsForms ==
    {[name |-> "", weight |-> 5, weightDate |-> "2026-01-10", birthDate |-> "2025-12-01"],
     [name |-> "Em", weight |-> 0, weightDate |-> "", birthDate |-> ""]}

SaveChildSettings(d, c, form) ==
    /\ Mutation
    /\ Ran(d, "saveChildSettings",
           saveChildSettings(client[d], now, c, form.name, form.weight, form.weightDate, form.birthDate))
    /\ CountMutation
    /\ UNCHANGED <<now, remote, requests, inbox, api>>

NavigateDate(d, delta) ==
    /\ used.navigations < MaxNavigations
    /\ client[d].viewingDate + delta >= now.date - MaxViewBack
    /\ Ran(d, "navigateDate", navigateDate(client[d], now, delta))
    /\ used' = [used EXCEPT !.navigations = @ + 1]
    /\ UNCHANGED <<now, remote, requests, inbox, api>>

\* the setInterval of init: updateDisplay() once a minute
RefreshDisplay(d) ==
    /\ client[d].data.today # getDateKey(now) \/ ~client[d].renderedToday
    /\ Ran(d, "refresh", Branch(updateDisplay(client[d], now), "refreshed"))
    /\ UNCHANGED <<now, remote, requests, inbox, api, used>>

\* ------------------------------------------------- pages/api/feeds.ts
\* POST: fetch the row, append the feed, stamp today, upsert the row
ApiDefaultDoc(today) ==
    [children |-> <<NewChild("Emily", <<>>), NewChild("Jimmy", <<>>)>>,
     today |-> today, logs |-> EmptyLogs, historicalLogs |-> NoKeys]

ApiFeedEntry(t) ==
    [text |-> "Feed 90mL", time |-> DisplayTime(HourOf(t.ms), MinuteOf(t.ms)),
     id |-> t, timestamp |-> t]

ApiFetch(c) ==
    /\ Mutation
    /\ used.posts < MaxApiPosts
    /\ api' = api \cup {[childIndex |-> c,
                         trackerData |-> IF remote.exists THEN remote.data
                                         ELSE ApiDefaultDoc(getDateKey(now))]}
    /\ used' = [used EXCEPT !.posts = @ + 1, !.actions = @ - 1]
    /\ lastOp' = Elsewhere
    /\ UNCHANGED <<now, client, remote, requests, inbox>>

ApiUpsert(call) ==
    LET doc == [call.trackerData EXCEPT
                   !.logs[call.childIndex].feeds = Append(@, ApiFeedEntry(now)),
                   !.today = getDateKey(now)]
        row == [data |-> doc, updated_at |-> now, from |-> "api"]
    IN  /\ remote' = [exists |-> TRUE, data |-> doc, updated_at |-> now]
        /\ inbox' = [d \in Devices |->
                        IF client[d].realtimeChannel = "joined"
                        THEN Append(inbox[d], Notification(row)) ELSE inbox[d]]
        /\ api' = api \ {call}
        /\ lastOp' = Elsewhere
        /\ UNCHANGED <<now, client, requests, used>>

\* the realtime channel reports a status to the subscribe callback
\* used.failures counts down the failure reports the channels still make;
\* used.streak[d] counts the reports that scheduled a reconnect on device d
\* since its last SUBSCRIBED, used.sinceReset[d] those since its last
\* SUBSCRIBED or forced reconnect
ChannelSubscribed(d) ==
    /\ client[d].realtimeChannel = "joining"
    /\ Ran(d, "channel", Branch(onChannelStatus(client[d], now, "SUBSCRIBED"), "SUBSCRIBED"))
    /\ used' = [used EXCEPT !.streak[d] = 0, !.sinceReset[d] = 0]
    /\ UNCHANGED <<now, remote, requests, inbox, api>>

ChannelFails(d, status) ==
    /\ used.failures > 0
    /\ \/ client[d].realtimeChannel = "joining"
       \/ client[d].realtimeChannel = "joined" /\ status # "TIMED_OUT"
    /\ Ran(d, "channel", Branch(onChannelStatus(client[d], now, status), status))
    /\ used' = [used EXCEPT !.failures = @ - 1, !.streak[d] = @ + 1, !.sinceReset[d] = @ + 1]
    /\ UNCHANGED <<now, remote, requests, inbox, api>>

\* a channel that was removed reports CLOSED to its subscribe callback
RemovedChannelCloses(d) ==
    /\ used.failures > 0
    /\ client[d].removed > 0
    /\ Ran(d, "channel", Branch(onRemovedChannelClosed(client[d], now), "REMOVED_CLOSED"))
    /\ used' = [used EXCEPT !.failures = @ - 1,
                            !.streak[d] = IF client[d].storedCallback THEN @ + 1 ELSE @,
                            !.sinceReset[d] = IF client[d].storedCallback THEN @ + 1 ELSE @]
    /\ UNCHANGED <<now, remote, requests, inbox, api>>

\* a call of the exported unsubscribeFromChanges
Unsubscribe(d) ==
    /\ client[d].supabase
    /\ client[d].storedCallback
    /\ Ran(d, "unsubscribe", unsubscribeFromChanges(client[d]))
    /\ UNCHANGED <<now, remote, requests, inbox, api, used>>

\* a call of subscribeToChanges after the subscription was torn down
SubscribeAnew(d) ==
    /\ client[d].supabase
    /\ ~client[d].storedCallback
    /\ Ran(d, "subscribe", subscribeToChanges(client[d]))
    /\ UNCHANGED <<now, remote, requests, inbox, api, used>>

ReconnectTimerFires(d) ==
    /\ client[d].reconnectTimeout = now
    /\ Ran(d, "reconnect", reconnectNow(client[d]))
    /\ UNCHANGED <<now, remote, requests, inbox, api, used>>

\* a click on the sync status element
ForceReconnect(d) ==
    /\ client[d].supabase
    /\ client[d].realtimeChannel \in {"errored", "closed"}
    /\ Ran(d, "forceReconnect", forceReconnect(showSyncToast(client[d])))
    /\ used' = [used EXCEPT !.sinceReset[d] = IF client[d].storedCallback THEN 0 ELSE @]
    /\ UNCHANGED <<now, remote, requests, inbox, api>>

\* the same click while the channel is joining or joined
ForceReconnectAnytime(d) ==
    /\ client[d].supabase
    /\ Ran(d, "forceReconnect", forceReconnect(showSyncToast(client[d])))
    /\ used' = [used EXCEPT !.sinceReset[d] = IF client[d].storedCallback THEN 0 ELSE @]
    /\ UNCHANGED <<now, remote, requests, inbox, api>>

TimerDue(t) == t # NullTime /\ ElapsedMs(now, t) >= 0
NoTimerDue ==
    \A d \in Devices :
        /\ \A deadline \in client[d].pushTimers : ~TimerDue(deadline)
        /\ ~TimerDue(client[d].reconnectTimeout)
NoTimerPending ==
    \A d \in Devices : client[d].pushTimers = {} /\ client[d].reconnectTimeout = NullTime

Tick ==
    /\ NoTimerDue
    /\ now.ms < WakeMs + MaxTicks * TickMs
    /\ now' = AddMs(now, TickMs)
    /\ lastOp' = Elsewhere
    /\ UNCHANGED <<client, remote, requests, inbox, api, used>>

\* nothing happens until the next reconnect timer is due
WaitForTimer ==
    /\ NoTimerDue
    /\ \E d \in Devices :
          /\ client[d].reconnectTimeout # NullTime
          /\ \A e \in Devices : client[e].reconnectTimeout # NullTime =>
                 ElapsedMs(client[e].reconnectTimeout, client[d].reconnectTimeout) >= 0
          /\ \A e \in Devices : \A deadline \in client[e].pushTimers :
                 ElapsedMs(deadline, client[d].reconnectTimeout) >= 0
          /\ now' = client[d].reconnectTimeout
    /\ lastOp' = Elsewhere
    /\ UNCHANGED <<client, remote, requests, inbox, api, used>>

\* a day passes with no timer pending (the devices may have slept meanwhile)
NextDay ==
    /\ NoTimerPending
    /\ now.date < MaxDate
    /\ now' = Time(now.date + 1, now.ms)
    /\ lastOp' = Elsewhere
    /\ UNCHANGED <<client, remote, requests, inbox, api, used>>

\* ---------------------------------------------------------------- init
StartTime == Time(1, WakeMs)
LoadedAt == Time(1, 0)

\* a device after init() has loaded the row and, if the remote store is
\* configured, the channel has reported SUBSCRIBED
InitClient(configured, doc) ==
    [supabase |-> configured,
     data |-> doc,
     localStorage |-> Stringify(doc),
     viewingDate |-> getDateKey(StartTime),
     saveTimeout |-> NullTime,
     pushTimers |-> {},
     lastSaveTimestamp |-> Epoch,
     lastKnownUpdatedAt |-> IF configured THEN LoadedAt ELSE NullTime,
     isApplyingRemoteUpdate |-> FALSE,
     syncStatus |-> IF configured THEN "realtime" ELSE "offline",
     realtimeChannel |-> IF configured THEN "joined" ELSE "null",
     reconnectAttempts |-> 0,
     reconnectTimeout |-> NullTime,
     storedCallback |-> configured,
     connectionStatus |-> IF configured THEN "connected" ELSE "none",
     removed |-> 0,
     renderedToday |-> TRUE,
     dragState |-> NoDrag,
     fx |-> NoFx]

InitState(configured, doc, actions, failures) ==
    /\ now = StartTime
    /\ client = [d \in Devices |-> InitClient(configured[d], doc)]
    /\ remote = [exists |-> TRUE, data |-> doc, updated_at |-> LoadedAt]
    /\ requests = {}
    /\ inbox = [d \in Devices |-> <<>>]
    /\ api = {}
    /\ lastOp = Elsewhere
    /\ used = [actions |-> actions, navigations |-> 0, duplicates |-> 0, failures |-> failures,
               posts |-> 0, unstored |-> FALSE, skipped |-> FALSE,
               streak |-> [d \in Devices |-> 0], sinceReset |-> [d \in Devices |-> 0]]

InitWith(configured, doc, actions) == InitState(configured, doc, actions, MaxChannelFailures)

Network ==
    \/ \E d \in Devices : SaveTimerFires(d)
    \/ \E r \in requests, stored \in BOOLEAN, ok \in BOOLEAN : UpsertReturns(r, stored, ok)
    \/ \E d \in Devices : Deliver(d)

Clock == Tick \/ NextDay

\* two devices that share the remote row, each logging events
Init == InitWith([d \in Devices |-> TRUE], InitialDoc(getDateKey(StartTime)), MaxUserActions)

Next ==
    \/ \E d \in Devices, c \in {1} : LogFeed(d, c)
    \/ \E d \in Devices : DeliverTwice(d)
    \/ Network
    \/ Clock

Spec == Init /\ [][Next]_vars

\* one device in use, with the remote row configured or not, every user
\* operation of the page, and the feeds endpoint as the other writer
User == "A"

LocalInit ==
    \E configured \in BOOLEAN :
    \E doc \in {InitialDoc(getDateKey(StartTime)), BusyDoc(getDateKey(StartTime))} :
        InitWith([d \in Devices |-> d = User /\ configured], doc, MaxLocalActions)

UserAction(d) ==
    \/ \E c \in Children : LogFeed(d, c)
    \/ \E c \in Children, type \in {"pee", "poop"} : LogDiaper(d, c, type)
    \/ \E c \in Children : \E m \in 1..Len(client[d].data.children[c].medications) : GiveMed(d, c, m)
    \/ \E c \in Children : AddOverdueMed(d, c)
    \/ \E c \in Children : \E ev \in getTimelineEvents(client[d].data.logs[c]) :
          DeleteEventFromPlanner(d, c, ev)
    \/ \E c \in Children : \E ev \in getTimelineEvents(client[d].data.logs[c]) :
          StartDragging(d, c, ev)
    \/ \E delta \in DragDeltas : EndDragging(d, delta)
    \/ \E c \in Children : SaveMedication(d, c)
    \/ \E c \in Children : \E m \in 1..Len(client[d].data.children[c].medications) : RemoveMed(d, c, m)
    \/ \E c \in Children, form \in SettingsForms : SaveChildSettings(d, c, form)
    \/ \E delta \in {0 - 1, 1} : NavigateDate(d, delta)

LocalNext ==
    \/ UserAction(User)
    \/ RefreshDisplay(User)
    \/ \E c \in Children : ApiFetch(c)
    \/ \E call \in api : ApiUpsert(call)
    \/ Network
    \/ Clock

SpecLocal == LocalInit /\ [][LocalNext]_vars

\* one device that logs events while its channel fails and reconnects
ChannelInit ==
    \E configured \in BOOLEAN :
        InitWith([d \in Devices |-> d = User /\ configured],
                 InitialDoc(getDateKey(StartTime)), MaxUserActions)

ChannelNext ==
    \/ \E status \in {"CHANNEL_ERROR", "TIMED_OUT", "CLOSED"} : ChannelFails(User, status)
    \/ ReconnectTimerFires(User)
    \/ ChannelSubscribed(User)
    \/ ForceReconnect(User)
    \/ \E c \in Children : LogFeed(User, c)
    \/ \E c \in Children, type \in {"pee", "poop"} : LogDiaper(User, c, type)
    \/ \E c \in Children : \E m \in 1..Len(client[User].data.children[c].medications) : GiveMed(User, c, m)
    \/ Network
    \/ Tick

SpecChannel == ChannelInit /\ [][ChannelNext]_vars

\* one device and the feeds endpoint, both writing the row
ApiInit ==
    \E doc \in {InitialDoc(getDateKey(StartTime)), BusyDoc(getDateKey(StartTime))} :
        InitWith([d \in Devices |-> d = User], doc, MaxUserActions)

ApiNext ==
    \/ \E c \in Children : ApiFetch(c)
    \/ \E call \in api : ApiUpsert(call)
    \/ \E c \in {1} : LogFeed(User, c)
    \/ RefreshDisplay(User)
    \/ Network
    \/ Clock

SpecApi == ApiInit /\ [][ApiNext]_vars

\* one device without a remote store: medications given, events deleted and
\* dragged, medications removed, days changing
MedsInit ==
    \E doc \in {BusyDoc(getDateKey(StartTime)), TwoMedsDoc(getDateKey(StartTime))} :
        InitWith([d \in Devices |-> FALSE], doc, MaxMedActions)

MedsNext ==
    \/ \E c \in Children : \E m \in 1..Len(client[User].data.children[c].medications) :
          GiveMed(User, c, m)
    \/ \E c \in Children : AddOverdueMed(User, c)
    \/ \E c \in Children : \E ev \in getTimelineEvents(client[User].data.logs[c]) :
          DeleteEventFromPlanner(User, c, ev)
    \/ \E c \in Children : \E ev \in getTimelineEvents(client[User].data.logs[c]) :
          StartDragging(User, c, ev)
    \/ \E delta \in DragDeltas : EndDragging(User, delta)
    \/ \E c \in Children : \E m \in 1..Len(client[User].data.children[c].medications) :
          RemoveMed(User, c, m)
    \/ RefreshDisplay(User)
    \/ Clock

SpecMeds == MedsInit /\ [][MedsNext]_vars

\* one device without a remote store, paging through the days, on which the
\* delete function of the planner is called, by a button or directly
PlannerInit ==
    InitWith([d \in Devices |-> FALSE], BusyDoc(getDateKey(StartTime)), MaxPlannerActions)

PlannerNext ==
    \/ \E c \in Children : \E ev \in getTimelineEvents(client[User].data.logs[c]) :
          DeleteEventFromPlanner(User, c, ev)
    \/ \E c \in Children : \E ev \in getTimelineEvents(getViewingLogs(client[User], now)[c]) :
          DeleteEventCalled(User, c, ev)
    \/ \E delta \in {0 - 1, 1} : NavigateDate(User, delta)
    \/ RefreshDisplay(User)
    \/ Clock

SpecPlanner == PlannerInit /\ [][PlannerNext]_vars

\* one device without a remote store whose archive holds 29 or 30 days, the
\* days in a row or with a gap before the oldest
RetentionInit ==
    \E dates \in {(0 - 28)..0, (0 - 29)..0, {0 - 40} \cup (0 - 28)..0} :
        InitWith([d \in Devices |-> FALSE],
                 HistoryDoc(getDateKey(StartTime), dates), MaxRetentionActions)

RetentionNext ==
    \/ \E c \in Children : LogFeed(User, c)
    \/ \E c \in Children : \E ev \in getTimelineEvents(client[User].data.logs[c]) :
          DeleteEventFromPlanner(User, c, ev)
    \/ \E delta \in {0 - 1, 1} : NavigateDate(User, delta)
    \/ RefreshDisplay(User)
    \/ Clock

SpecRetention == RetentionInit /\ [][RetentionNext]_vars

\* two devices sharing the row, both holding an archive of 29 or 30 days and
\* a feed of today: feeds are logged, the date changes, the devices roll
\* over, push, and reconcile each other's documents
SharedArchiveInit ==
    \E dates \in {(0 - 28)..0, (0 - 29)..0} :
        InitWith([d \in Devices |-> TRUE], HistoryDoc(getDateKey(StartTime), dates),
                 MaxArchiveActions)

SharedArchiveNext ==
    \/ \E d \in Devices : LogFeed(d, 1)
    \/ \E d \in Devices : RefreshDisplay(d)
    \/ Network
    \/ Clock

SpecSharedArchive == SharedArchiveInit /\ [][SharedArchiveNext]_vars

\* two devices sharing the row: after at most MaxEchoActions feeds the users
\* do nothing more; the devices push, are notified, reconcile and roll over
\* when the date changes. Time passes to the deadline of the next push timer.
TimerElapses ==
    /\ NoTimerDue
    /\ \E d \in Devices : \E deadline \in client[d].pushTimers :
          /\ \A e \in Devices : \A other \in client[e].pushTimers :
                 ElapsedMs(other, deadline) >= 0
          /\ now' = deadline
    /\ lastOp' = Elsewhere
    /\ UNCHANGED <<client, remote, requests, inbox, api, used>>

EchoInit ==
    InitWith([d \in Devices |-> TRUE], InitialDoc(getDateKey(StartTime)), MaxEchoActions)

EchoNext ==
    \/ \E d \in Devices : LogFeed(d, 1)
    \/ \E d \in Devices : RefreshDisplay(d)
    \/ \E d \in Devices : SaveTimerFires(d)
    \/ \E r \in requests, stored \in BOOLEAN, ok \in BOOLEAN : UpsertReturns(r, stored, ok)
    \/ \E d \in Devices : Deliver(d)
    \/ TimerElapses
    \/ NextDay

SpecEcho == EchoInit /\ [][EchoNext]_vars

\* a timer that was started runs at its deadline, an awaited upsert resolves
\* or rejects, and the channel hands over every notification it holds
SpecEchoFair ==
    /\ SpecEcho
    /\ WF_vars(TimerElapses)
    /\ WF_vars(\E d \in Devices : SaveTimerFires(d))
    /\ WF_vars(\E r \in requests, stored \in BOOLEAN, ok \in BOOLEAN : UpsertReturns(r, stored, ok))
    /\ WF_vars(\E d \in Devices : Deliver(d))

\* one device and its realtime channel: failures, reconnect timers, forced
\* reconnects, teardown and the late CLOSED reports of removed channels
ReconnectInit ==
    InitState([d \in Devices |-> d = User], InitialDoc(getDateKey(StartTime)), 0,
              MaxReconnectFailures)

ReconnectNext ==
    \/ \E status \in {"CHANNEL_ERROR", "TIMED_OUT", "CLOSED"} : ChannelFails(User, status)
    \/ RemovedChannelCloses(User)
    \/ ReconnectTimerFires(User)
    \/ ChannelSubscribed(User)
    \/ ForceReconnectAnytime(User)
    \/ Unsubscribe(User)
    \/ SubscribeAnew(User)
    \/ WaitForTimer

SpecReconnect == ReconnectInit /\ [][ReconnectNext]_vars

\* one device whose first child has one medication with a schedule of up to
\* MaxDoses dose times, each so many minutes before or after the start of the
\* run (a negative offset is a dose time that has passed); doses are given
\* and their events deleted while the seconds pass
DoseOffsets == {0 - 121, 0 - 120, 0 - 61, 0 - 60, 0 - 31, 0 - 30, 0 - 29, 0, 29, 30, 31, 119, 120, 121}

DoseTimeAt(offset) ==
    DoseTime(HourOf(StartTime.ms + offset * MS_PER_MINUTE),
             MinuteOf(StartTime.ms + offset * MS_PER_MINUTE))

Schedules ==
    UNION {[1..n -> {DoseTimeAt(k) : k \in DoseOffsets}] : n \in 0..MaxDoses}
        \cup {<<DoseTimeAt(0 - 120), DoseTimeAt(0), DoseTimeAt(120)>>,
               <<DoseTimeAt(30), DoseTimeAt(0 - 31), DoseTimeAt(30)>>}

ScheduleDoc(today, doseTimes) ==
    [InitialDoc(today) EXCEPT
        !.children[1].medications =
            <<[DefaultMedication EXCEPT !.dosesPerDay = Len(doseTimes), !.doseTimes = doseTimes]>>]

UrgencyInit ==
    \E doseTimes \in Schedules :
        InitWith([d \in Devices |-> FALSE], ScheduleDoc(getDateKey(StartTime), doseTimes),
                 MaxUrgencyActions)

UrgencyNext ==
    \/ GiveMed(User, 1, 1)
    \/ \E ev \in getTimelineEvents(client[User].data.logs[1]) : DeleteEventFromPlanner(User, 1, ev)
    \/ Tick

SpecUrgency == UrgencyInit /\ [][UrgencyNext]_vars

\* one device without a remote store whose first child has up to MaxEvents
\* feeds and at most one diaper change logged at quarter hours from the
\* start time; the planner is drawn at three zoom levels (36 pixels are 36,
\* 30 and 15 minutes) and events are deleted from it
EventOffsets == {0, 15, 30, 45, 60}
HourHeights == {60, 72, 144}

EventTimeAt(offset) == AddMs(StartTime, offset * MS_PER_MINUTE)

FeedAt(offset) ==
    [text |-> "Feed 120mL",
     time |-> DisplayTime(HourOf(EventTimeAt(offset).ms), MinuteOf(EventTimeAt(offset).ms)),
     id |-> EventTimeAt(offset), timestamp |-> EventTimeAt(offset)]

DiaperAt(offset) ==
    [type |-> "pee",
     time |-> DisplayTime(HourOf(EventTimeAt(offset).ms), MinuteOf(EventTimeAt(offset).ms)),
     timestamp |-> EventTimeAt(offset)]

LayoutDoc(today, feedOffsets, diaperOffsets) ==
    [InitialDoc(today) EXCEPT
        !.logs[1].feeds = [i \in 1..Len(feedOffsets) |-> FeedAt(feedOffsets[i])],
        !.logs[1].diapers = [i \in 1..Len(diaperOffsets) |-> DiaperAt(diaperOffsets[i])]]

RenderPlanner(d, childIndex, hourHeight) ==
    /\ Mutation
    /\ Ran(d, "renderPlanner", renderPlanner(client[d], now, childIndex, hourHeight))
    /\ CountMutation
    /\ UNCHANGED <<now, remote, requests, inbox, api>>

LayoutInit ==
    \E feedOffsets \in UNION {[1..n -> EventOffsets] : n \in 0..MaxEvents},
       diaperOffsets \in UNION {[1..n -> EventOffsets] : n \in 0..1} :
        InitWith([d \in Devices |-> FALSE],
                 LayoutDoc(getDateKey(StartTime), feedOffsets, diaperOffsets), MaxLayoutActions)

LayoutNext ==
    \/ \E childIndex \in Children, hourHeight \in HourHeights :
          RenderPlanner(User, childIndex, hourHeight)
    \/ \E ev \in getTimelineEvents(client[User].data.logs[1]) : DeleteEventFromPlanner(User, 1, ev)

SpecLayout == LayoutInit /\ [][LayoutNext]_vars

\* one device without a remote store whose document holds one feed of today
\* at any hour and minute, its time string as the feeds endpoint writes it
\* (feeds.ts 111-115) or with the marker in lower case as another writer of
\* the row may spell it; the planner is drawn and the feed is dragged, which
\* writes the string of updateEventTime
EndpointFeedAt(hour, minute, lowerCase) ==
    LET t == Time(getDateKey(StartTime), hour * MS_PER_HOUR + minute * MS_PER_MINUTE)
        displayTime == DisplayTime(hour, minute)
    IN  [text |-> "Feed 90mL",
         time |-> IF lowerCase THEN toLowerCase(displayTime) ELSE displayTime,
         id |-> t, timestamp |-> t]

TimeStringInit ==
    \E hour \in 0..23, minute \in 0..59, lowerCase \in BOOLEAN :
        InitWith([d \in Devices |-> FALSE],
                 [InitialDoc(getDateKey(StartTime)) EXCEPT
                     !.logs[1].feeds = <<EndpointFeedAt(hour, minute, lowerCase)>>],
                 MaxTimeActions)

TimeStringNext ==
    \/ RenderPlanner(User, 1, 60)
    \/ \E ev \in getTimelineEvents(client[User].data.logs[1]) : StartDragging(User, 1, ev)
    \/ \E delta \in DragDeltas : EndDragging(User, delta)

SpecTimeString == TimeStringInit /\ [][TimeStringNext]_vars

\* two devices showing the same two feeds of the first child: events are
\* deleted and dragged on either device while the other's pushes are delivered,
\* also between the start of a drag and its drop
DragSyncInit ==
    InitWith([d \in Devices |-> TRUE], LayoutDoc(getDateKey(StartTime), <<0, 30>>, <<>>),
             MaxDragActions)

DragSyncNext ==
    \/ \E d \in Devices : \E ev \in getTimelineEvents(client[d].data.logs[1]) :
          DeleteEventFromPlanner(d, 1, ev)
    \/ \E d \in Devices : \E ev \in getTimelineEvents(client[d].data.logs[1]) :
          StartDragging(d, 1, ev)
    \/ \E d \in Devices : \E delta \in DragDeltas : EndDragging(d, delta)
    \/ Network
    \/ TimerElapses

SpecDragSync == DragSyncInit /\ [][DragSyncNext]_vars

\* applyParsedData on one device, called with an incoming document of any
\* shape (as often as the notification is delivered) and with the parsed text
\* of the device's own data (as loadData does with the cache)
ApplyParsedData(d) ==
    /\ used.actions > 0
    /\ inbox[d] # <<>>
    /\ LET applied == applyParsedDocument(client[d].data, Head(inbox[d]).data)
       IN  Ran(d, "applyParsedData",
               Branch([client[d] EXCEPT !.data = applied.data],
                      IF applied.threw THEN "threw" ELSE "applied"))
    /\ used' = [used EXCEPT !.actions = @ - 1]
    /\ UNCHANGED <<now, remote, requests, inbox, api>>

ApplySerialized(d) ==
    /\ used.actions > 0
    /\ LET applied == applyParsedDocument(client[d].data, Stringified(client[d].data))
       IN  Ran(d, "applySerialized",
               Branch([client[d] EXCEPT !.data = applied.data],
                      IF applied.threw THEN "threw" ELSE "applied"))
    /\ used' = [used EXCEPT !.actions = @ - 1]
    /\ UNCHANGED <<now, remote, requests, inbox, api>>

IngestInit ==
    \E local \in {FreshData, KnownData}, incoming \in IncomingDocuments :
        /\ now = StartTime
        /\ client = [d \in Devices |-> InitClient(d = User, local)]
        /\ remote = [exists |-> TRUE, data |-> incoming, updated_at |-> StartTime]
        /\ requests = {}
        /\ inbox = [d \in Devices |->
                       IF d = User
                       THEN <<[eventType |-> "UPDATE", data |-> incoming, updated_at |-> StartTime]>>
                       ELSE <<>>]
        /\ api = {}
        /\ lastOp = Elsewhere
        /\ used = [actions |-> MaxIngests, navigations |-> 0, duplicates |-> 0, failures |-> 0,
                   posts |-> 0, unstored |-> FALSE, skipped |-> FALSE,
                   streak |-> [d \in Devices |-> 0], sinceReset |-> [d \in Devices |-> 0]]

IngestNext == ApplyParsedData(User) \/ ApplySerialized(User)

SpecIngest == IngestInit /\ [][IngestNext]_vars

\* two devices sharing the row: the channel of one fails and reconnects
\* while the other logs feeds
OutageInit == InitWith([d \in Devices |-> TRUE], InitialDoc(getDateKey(StartTime)), MaxUserActions)

OutageNext ==
    \/ \E status \in {"CHANNEL_ERROR", "TIMED_OUT", "CLOSED"} : ChannelFails(User, status)
    \/ ReconnectTimerFires(User)
    \/ ChannelSubscribed(User)
    \/ \E d \in Devices \ {User} : LogFeed(d, 1)
    \/ Network
    \/ Tick

SpecOutage == OutageInit /\ [][OutageNext]_vars

\* ---------------------------------------------------------------- claims
\* the step is a run of the notification handler on device d; the
\* notification it handles is the head of inbox[d] before the step
Handled(d) == lastOp'.dev = d /\ lastOp'.op = "onChange" /\ inbox[d] # <<>>

InEchoWindow(d) == ElapsedMs(now, client[d].lastSaveTimestamp) < ECHO_WINDOW_MS

\* C1: a notification handled less than 2 seconds after the device's last
\* push only sets lastKnownUpdatedAt to its updated_at: document, cache and
\* every other field of the device stay as they are, nothing is rendered and
\* no toast is shown
C1_EchoWindowOnlyTracksTimestamp ==
    [][\A d \in Devices :
          Handled(d) /\ InEchoWindow(d) =>
              /\ client'[d] = [client[d] EXCEPT !.lastKnownUpdatedAt = Head(inbox[d]).updated_at]
              /\ ~lastOp'.fx.rendered
              /\ ~lastOp'.fx.toast]_vars

\* a notification of another device's push was handled within the window of
\* this device's own push, and left the device's document apart from the row
C1_Witness ==
    \E d \in Devices :
        /\ lastOp.dev = d /\ lastOp.op = "onChange"
        /\ InEchoWindow(d)
        /\ client[d].lastKnownUpdatedAt # client[d].lastSaveTimestamp
        /\ client[d].data # remote.data

\* the handler run on d passes both gates: 2 seconds or more since the last
\* push, and an updated_at other than lastKnownUpdatedAt
Reconciled(d) ==
    /\ Handled(d)
    /\ ~InEchoWindow(d)
    /\ Head(inbox[d]).updated_at # client[d].lastKnownUpdatedAt

\* C2 as stated: a reconciled notification leaves the device with the today
\* key, live logs and historicalLogs of the remote document, the cache holding
\* the result, lastKnownUpdatedAt set to its updated_at, and the views rendered
C2_RemoteWinsWholesale ==
    [][\A d \in Devices :
          Reconciled(d) =>
              LET payload == Head(inbox[d])
              IN  /\ client'[d].data.today = payload.data.today
                  /\ client'[d].data.logs = payload.data.logs
                  /\ client'[d].data.historicalLogs = payload.data.historicalLogs
                  /\ client'[d].localStorage = Stringify(client'[d].data)
                  /\ client'[d].lastKnownUpdatedAt = payload.updated_at
                  /\ lastOp'.fx.rendered]_vars

\* C2 amended: the remote document wins wholesale and the rollover check of
\* the re-render then runs on it: when the remote today key is the current
\* date the device holds the remote today, logs and historicalLogs; otherwise
\* the device holds today = the current date, empty live logs, and the remote
\* historicalLogs with the remote live logs archived under the remote today key
\* (if they hold any data, within retention); in both cases the cache holds
\* the result, lastKnownUpdatedAt is the updated_at, and the views are rendered
C2_RemoteWinsThenRollover ==
    [][\A d \in Devices :
          Reconciled(d) =>
              LET payload == Head(inbox[d])
                  doc == payload.data
              IN  /\ IF doc.today = getDateKey(now)
                      THEN /\ client'[d].data.today = doc.today
                           /\ client'[d].data.logs = doc.logs
                           /\ client'[d].data.historicalLogs = doc.historicalLogs
                      ELSE /\ client'[d].data.today = getDateKey(now)
                           /\ client'[d].data.logs = EmptyLogs
                           /\ client'[d].data.historicalLogs =
                                 IF hasAnyData(doc.logs)
                                 THEN PruneHistory(Put(doc.historicalLogs, doc.today, doc.logs))
                                 ELSE doc.historicalLogs
                  /\ client'[d].localStorage = Stringify(client'[d].data)
                  /\ client'[d].lastKnownUpdatedAt = payload.updated_at
                  /\ lastOp'.fx.rendered]_vars

\* a device has just reconciled a document pushed the day before: it shows
\* the toast, holds today's key and the pushed live logs in its archive
C2_Witness ==
    \E d \in Devices :
        /\ lastOp.dev = d /\ lastOp.op = "onChange" /\ lastOp.fx.toast
        /\ client[d].data.today = getDateKey(now)
        /\ remote.data.today # getDateKey(now)
        /\ HasKey(client[d].data.historicalLogs, remote.data.today)
        /\ client[d].data.historicalLogs[remote.data.today] = remote.data.logs

\* C3: the notification of a push this device made never triggers
\* reconciliation on this device: the handler leaves the document as it is,
\* renders nothing and shows no toast, whenever it is delivered
C3_OwnPushNeverReconciled ==
    [][\A d \in Devices :
          Handled(d) /\ Head(inbox[d]).from = d =>
              /\ client'[d].data = client[d].data
              /\ ~lastOp'.fx.rendered
              /\ ~lastOp'.fx.toast]_vars

\* C4: a notification delivered again, with no other notification and no push
\* of the device in between, changes nothing.  Every handler run leaves
\* lastKnownUpdatedAt at the updated_at it handled; only a handler run or a
\* push changes lastKnownUpdatedAt; and a handler run on a notification whose
\* updated_at is lastKnownUpdatedAt leaves the device as it is, renders
\* nothing and shows no toast
C4_SecondDeliverySkipped ==
    [][\A d \in Devices :
          /\ Handled(d) => client'[d].lastKnownUpdatedAt = Head(inbox[d]).updated_at
          /\ client'[d].lastKnownUpdatedAt # client[d].lastKnownUpdatedAt =>
                 lastOp'.dev = d /\ lastOp'.op \in {"onChange", "push"}
          /\ Handled(d) /\ Head(inbox[d]).updated_at = client[d].lastKnownUpdatedAt =>
                 /\ client'[d] = client[d]
                 /\ ~lastOp'.fx.rendered
                 /\ ~lastOp'.fx.toast]_vars

\* a device that never pushed has handled another device's notification a
\* second time, outside any echo window, and skipped it
C4_Witness ==
    \E d \in Devices :
        /\ lastOp.dev = d /\ lastOp.op = "onChange"
        /\ used.duplicates > 0
        /\ inbox[d] = <<>>
        /\ client[d].lastSaveTimestamp = Epoch
        /\ client[d].lastKnownUpdatedAt = remote.updated_at
        /\ client[d].data = remote.data
        /\ ~lastOp.fx.toast

\* nothing is left to happen: no push timer pending, every upsert stored, no
\* notification undelivered, the remote document and every device's document
\* of the current date
Quiescent ==
    /\ requests = {}
    /\ ~used.unstored
    /\ remote.data.today = getDateKey(now)
    /\ \A d \in Devices :
          /\ client[d].pushTimers = {}
          /\ inbox[d] = <<>>
          /\ client[d].data.today = getDateKey(now)

Converged ==
    \A d \in Devices :
        /\ client[d].data = remote.data
        /\ client[d].localStorage = Stringify(remote.data)

EventsOf(logs) ==
    UNION {{<<c, "feed", logs[c].feeds[i]>> : i \in 1..Len(logs[c].feeds)}
           \cup {<<c, "diaper", logs[c].diapers[i]>> : i \in 1..Len(logs[c].diapers)}
           \cup {<<c, "med", logs[c].meds[i]>> : i \in 1..Len(logs[c].meds)}
           : c \in 1..Len(logs)}

\* the events of a cached document: live logs and archive
CachedEvents(text) ==
    LET doc == Parse(text)
    IN  EventsOf(doc.logs) \cup
        UNION {EventsOf(doc.historicalLogs[k]) : k \in DOMAIN doc.historicalLogs}

\* C6 as stated: the events in a device's cache when its push has failed are
\* in the cache in the next state too, whatever the step is (in Spec no user
\* deletes an event and retention evicts nothing)
C6_FailedPushCacheKept ==
    [][\A d \in Devices :
          client[d].syncStatus = "error" =>
              CachedEvents(client[d].localStorage) \subseteq CachedEvents(client'[d].localStorage)]_vars

\* C7: at the end of every operation (a handler runs as one step) the cache
\* of each device holds exactly the serialized in-memory document
C7_CacheMirrorsDocument ==
    \A d \in Devices : client[d].localStorage = Stringify(client[d].data)

\* the handler has reconciled a feed posted through the endpoint the day
\* before and rolled the document over: the cache holds the result
C7_Witness ==
    /\ lastOp.dev = User /\ lastOp.op = "onChange" /\ lastOp.fx.toast
    /\ client[User].data.today = getDateKey(now)
    /\ client[User].data.today # getDateKey(StartTime)
    /\ client[User].data # remote.data
    /\ Parse(client[User].localStorage) = client[User].data
    /\ HasKey(client[User].data.historicalLogs, remote.data.today)

\* C8: each device has at most one push timer pending; a logFeed that changes
\* the document leaves exactly one timer, due 1 second later, whatever was
\* pending before; the timer that runs is the one started last, 1 second
\* after the last save, and it issues exactly one upsert, stamped now and
\* carrying the document as it is at that moment; an upsert in flight leaves
\* only by returning to its device
C8_DebouncedPush ==
    [][\A d \in Devices :
          /\ Cardinality(client'[d].pushTimers) <= 1
          /\ lastOp'.dev = d /\ lastOp'.op = "logFeed" /\ client'[d].data # client[d].data =>
                 client'[d].pushTimers = {AddMs(now, SAVE_DEBOUNCE_MS)}
          /\ lastOp'.dev = d /\ lastOp'.op = "push" =>
                 /\ now = client[d].saveTimeout
                 /\ client'[d].pushTimers = {}
                 /\ lastOp'.fx.upserts = 1
                 /\ \E r \in requests' :
                       /\ r \notin requests
                       /\ requests' = requests \cup {r}
                       /\ r = [from |-> d, data |-> client[d].data, updated_at |-> now]
          /\ \A r \in requests :
                 r \notin requests' => lastOp'.dev = r.from /\ lastOp'.op = "pushResult"]_vars

\* a device logged a feed, logged a second one a second later while the
\* first timer was due, and has now issued its only upsert, 1 second after
\* the second feed, with both feeds in it
C8_Witness ==
    \E d \in Devices :
        /\ lastOp.dev = d /\ lastOp.op = "push"
        /\ now = AddMs(StartTime, 2 * SAVE_DEBOUNCE_MS)
        /\ requests = {[from |-> d, data |-> client[d].data, updated_at |-> now]}
        /\ Len(client[d].data.logs[1].feeds) = 2
        /\ remote.updated_at = LoadedAt
        /\ used.actions = 0

\* C9: when the upsert comes back with an error the device changes its sync
\* status to error and nothing else: document, cache and timers are as
\* before, so no retry is pending; an upsert is only issued by a pending push
\* timer, and a push timer is only started by a handler that saves a changed
\* document; a feed logged while the status is error does start one
C9_FailedPushNotRetried ==
    [][\A d \in Devices :
          /\ lastOp'.dev = d /\ lastOp'.op = "pushResult" /\ lastOp'.fx.branch = "error" =>
                 client'[d] = [client[d] EXCEPT !.syncStatus = "error"]
          /\ lastOp'.dev = d /\ lastOp'.op = "push" => now \in client[d].pushTimers
          /\ ~(client'[d].pushTimers \subseteq client[d].pushTimers) =>
                 /\ lastOp'.dev = d /\ lastOp'.op = "logFeed"
                 /\ client'[d].data # client[d].data
          /\ (/\ client[d].syncStatus = "error"
              /\ lastOp'.dev = d /\ lastOp'.op = "logFeed"
              /\ client'[d].data # client[d].data) =>
                 /\ client'[d].pushTimers = {AddMs(now, SAVE_DEBOUNCE_MS)}
                 /\ client'[d].syncStatus = "syncing"]_vars

\* the only upsert so far was never stored, no retry followed, and the feed
\* the device has logged since has started a new push timer
C9_Witness ==
    \E d \in Devices :
        /\ lastOp.dev = d /\ lastOp.op = "logFeed"
        /\ used.unstored
        /\ requests = {}
        /\ remote.updated_at = LoadedAt
        /\ client[d].lastSaveTimestamp # Epoch
        /\ ElapsedMs(now, client[d].lastSaveTimestamp) >= SAVE_DEBOUNCE_MS
        /\ client[d].pushTimers = {AddMs(now, SAVE_DEBOUNCE_MS)}
        /\ Len(client[d].data.logs[1].feeds) = 2

\* seq is old with one entry appended
Appended(old, seq) == Len(seq) = Len(old) + 1 /\ SubSeq(seq, 1, Len(old)) = old

Last(seq) == seq[Len(seq)]

\* C10: whatever the sync state of the device, a logFeed, logDiaper or
\* giveMed invoked while the page views today appends one event to the live
\* log of the chosen child (a feed or a diaper of the chosen type stamped now,
\* or a dose of the chosen medication that is then in medsDone), leaves the
\* child's other lists and the other child's log as they were, and leaves the
\* cache equal to the serialized document
C10_LoggingNeverBlocked ==
    [][\A d \in Devices, c \in Children :
          LET before == client[d].data.logs
              after == client'[d].data.logs
              meds == client[d].data.children[c].medications
              Logged == /\ client'[d].localStorage = Stringify(client'[d].data)
                        /\ \A o \in Children \ {c} : after[o] = before[o]
          IN  client[d].viewingDate = getDateKey(now) =>
                /\ LogFeed(d, c) =>
                      /\ Logged
                      /\ Appended(before[c].feeds, after[c].feeds)
                      /\ Last(after[c].feeds).timestamp = now
                      /\ after[c].diapers = before[c].diapers
                      /\ after[c].meds = before[c].meds
                /\ \A type \in {"pee", "poop"} :
                      LogDiaper(d, c, type) =>
                        /\ Logged
                        /\ Appended(before[c].diapers, after[c].diapers)
                        /\ Last(after[c].diapers).timestamp = now
                        /\ Last(after[c].diapers).type = type
                        /\ after[c].feeds = before[c].feeds
                        /\ after[c].meds = before[c].meds
                /\ \A m \in 1..Len(meds) :
                      GiveMed(d, c, m) =>
                        /\ Logged
                        /\ Appended(before[c].meds, after[c].meds)
                        /\ Last(after[c].meds).medId = meds[m].id
                        /\ Includes(DoneList(after[c], meds[m].id),
                                    Last(after[c].meds).doseIndex)
                        /\ after[c].feeds = before[c].feeds
                        /\ after[c].diapers = before[c].diapers]_vars

\* a dose was given on a device whose push was never stored and whose channel
\* is down: the dose is in the live log and in the cache
C10_Witness ==
    /\ lastOp.dev = User /\ lastOp.op = "giveMed"
    /\ used.unstored
    /\ client[User].realtimeChannel \in {"errored", "closed"}
    /\ client[User].syncStatus = "syncing"
    /\ \E c \in Children :
          /\ Len(client[User].data.logs[c].meds) = 1
          /\ Len(Parse(client[User].localStorage).logs[c].meds) = 1

\* the sync side of a device record is that of a page without a remote store
LocalOnly(s) ==
    /\ s.pushTimers = {} /\ s.saveTimeout = NullTime
    /\ s.realtimeChannel = "null" /\ ~s.storedCallback
    /\ s.reconnectTimeout = NullTime /\ s.reconnectAttempts = 0
    /\ s.syncStatus = "offline"
    /\ subscribeToChanges(s) = s
    /\ forceReconnect(s) = s

\* C11: on a device without a configured remote store, before and after
\* every step: no push timer and no reconnect timer is pending, no upsert of
\* the device is in flight or issued by the step, no channel exists and no
\* callback is stored, subscribeToChanges and forceReconnect leave the device
\* as it is, the status is offline; and every handler run on the device
\* leaves the cache equal to the serialized document
C11_LocalOnlyWithoutRemote ==
    [][\A d \in Devices :
          ~client[d].supabase =>
            /\ LocalOnly(client[d]) /\ LocalOnly(client'[d])
            /\ \A r \in requests \cup requests' : r.from # d
            /\ lastOp'.dev = d =>
                  /\ lastOp'.fx.upserts = 0
                  /\ client'[d].localStorage = Stringify(client'[d].data)]_vars

\* the unconfigured device has logged a diaper: it is in the document and in
\* the cache, and the device is local-only
C11_Witness ==
    /\ ~client[User].supabase
    /\ lastOp.dev = User /\ lastOp.op = "logDiaper" /\ lastOp.fx.branch = "logged"
    /\ \E c \in Children :
          /\ Len(client[User].data.logs[c].diapers) > Len(remote.data.logs[c].diapers)
          /\ Parse(client[User].localStorage).logs[c].diapers = client[User].data.logs[c].diapers
    /\ LocalOnly(client[User])

\* the (medId, doseIndex) pairs medsDone holds, and those the MedLogs hold
DonePairs(log) ==
    UNION {{<<k, log.medsDone[k][i]>> : i \in 1..Len(log.medsDone[k])} : k \in DOMAIN log.medsDone}

LoggedPairs(log) == {<<log.meds[i].medId, log.meds[i].doseIndex>> : i \in 1..Len(log.meds)}

\* C12: in the live logs of every device and child, a dose index is in
\* medsDone[medId] exactly when the meds list holds a MedLog with that medId
\* and doseIndex
C12_MedsDoneLockstep ==
    \A d \in Devices, c \in Children :
        DonePairs(client[d].data.logs[c]) = LoggedPairs(client[d].data.logs[c])

\* seq without its i-th entry
WithoutIndex(seq, i) == SubSeq(seq, 1, i - 1) \o SubSeq(seq, i + 1, Len(seq))

\* C13: a click on the delete button of the med event at index i of the live
\* meds list removes that MedLog and no other, removes its doseIndex from
\* medsDone[medId] and no other pair, and leaves no medId with an empty list
C13_DeletesExactlyOneDose ==
    [][\A d \in Devices, c \in Children :
          \A ev \in getTimelineEvents(client[d].data.logs[c]) :
              (/\ ev.type = "med"
               /\ client[d].viewingDate = getDateKey(now)
               /\ DeleteEventFromPlanner(d, c, ev)) =>
                  LET before == client[d].data.logs[c]
                      after == client'[d].data.logs[c]
                      entry == before.meds[ev.originalIndex]
                  IN  /\ after.meds = WithoutIndex(before.meds, ev.originalIndex)
                      /\ DonePairs(after) = DonePairs(before) \ {<<entry.medId, entry.doseIndex>>}
                      /\ \A k \in DOMAIN after.medsDone : Len(after.medsDone[k]) > 0]_vars

\* C14: a run of deleteEventFromPlanner, whatever date the page views,
\* leaves every entry of historicalLogs as it was
C14_DeletionLeavesHistory ==
    [][\A d \in Devices :
          lastOp'.dev = d /\ lastOp'.op = "deleteEventFromPlanner" =>
              \A k \in DOMAIN client[d].data.historicalLogs :
                  /\ k \in DOMAIN client'[d].data.historicalLogs
                  /\ client'[d].data.historicalLogs[k] = client[d].data.historicalLogs[k]]_vars

\* some child's log holds a feed, a diaper or a MedLog
HoldsEvent(logs) ==
    \E c \in 1..Len(logs) :
        Len(logs[c].feeds) > 0 \/ Len(logs[c].diapers) > 0 \/ Len(logs[c].meds) > 0

HoldsDoneKey(logs) == \E c \in 1..Len(logs) : DOMAIN logs[c].medsDone # {}

\* the step is the periodic refresh on d while the stored today is not the
\* current date: checkNewDay runs on the document as it is before the step
RefreshOnNewDay(d) ==
    /\ lastOp'.dev = d /\ lastOp'.op = "refresh"
    /\ client[d].data.today # getDateKey(now)

\* what checkNewDay leaves on d, archiving the outgoing logs or not
RolledTo(d, archive) ==
    LET old == client[d].data
        new == client'[d].data
    IN  /\ new.today = getDateKey(now)
        /\ new.logs = <<EmptyDayLog, EmptyDayLog>>
        /\ new.children = old.children
        /\ DOMAIN new.historicalLogs =
              DOMAIN old.historicalLogs \cup (IF archive THEN {old.today} ELSE {})
        /\ \A k \in DOMAIN new.historicalLogs :
              new.historicalLogs[k] = IF archive /\ k = old.today THEN old.logs
                                      ELSE old.historicalLogs[k]
        /\ client'[d].localStorage = Stringify(new)

C16_OneRolloverPerDay ==
    [][\A d \in Devices :
          (lastOp'.dev = d /\ lastOp'.fx.rolled) =>
              client[d].data.today # getDateKey(now)]_vars

\* C17: when a handler has rolled over and the archive with the outgoing day
\* holds more than 30 dates, exactly 30 dates remain, every remaining date is
\* later than every evicted one, and the remaining entries are unchanged
C17_RetentionKeepsNewest ==
    [][\A d \in Devices :
          LET old == client[d].data
              new == client'[d].data
              all == DOMAIN old.historicalLogs \cup {old.today}
              kept == DOMAIN new.historicalLogs
          IN  (/\ lastOp'.dev = d /\ lastOp'.fx.rolled
               /\ HoldsEvent(old.logs)
               /\ Cardinality(all) > 30) =>
                  /\ kept \subseteq all
                  /\ Cardinality(kept) = 30
                  /\ \A k \in kept, j \in all \ kept : j < k
                  /\ \A k \in kept :
                        new.historicalLogs[k] =
                            IF k = old.today THEN old.logs ELSE old.historicalLogs[k]]_vars

\* the rollover of day 2 found 30 archived days with a gap before the oldest:
\* day 1 is archived, the oldest date is evicted, 30 dates remain
C17_Witness ==
    /\ lastOp.dev = User /\ lastOp.fx.rolled
    /\ LET kept == DOMAIN client[User].data.historicalLogs
       IN  /\ Cardinality(kept) = 30
           /\ 1 \in kept /\ (0 - 28) \in kept
           /\ (0 - 40) \notin kept /\ (0 - 29) \notin kept
           /\ client[User].data.historicalLogs[1] = ArchivedDay(1)
    /\ remote.data.historicalLogs = [k \in {0 - 40} \cup (0 - 28)..0 |-> ArchivedDay(k)]

\* the delay claimed for the k-th failure: min(1000 * 2^(k-1), 30000) ms
ClaimedDelay(k) == IF k >= 6 THEN 30000 ELSE 1000 * Pow2(k - 1)

\* C18 (as stated): the k-th consecutive channel failure since the last
\* successful connection schedules the reconnect after
\* min(1000 * 2^(k-1), 30000) ms, and a SUBSCRIBED status resets the attempt
\* counter to zero.
C18_BackoffSinceConnected ==
    [][\A d \in Devices :
          /\ (lastOp'.dev = d /\ lastOp'.fx.delays # <<>>) =>
                 lastOp'.fx.delays = <<ClaimedDelay(used'.streak[d])>>
          /\ ChannelSubscribed(d) => client'[d].reconnectAttempts = 0]_vars

\* C18 (amended): the k-th consecutive channel failure since the last
\* successful connection or forced reconnect schedules the reconnect after
\* min(1000 * 2^(k-1), 30000) ms, and a SUBSCRIBED status resets the attempt
\* counter to zero.
C18_BackoffSinceReset ==
    [][\A d \in Devices :
          /\ (lastOp'.dev = d /\ lastOp'.fx.delays # <<>>) =>
                 lastOp'.fx.delays = <<ClaimedDelay(used'.sinceReset[d])>>
          /\ ChannelSubscribed(d) => client'[d].reconnectAttempts = 0]_vars

\* the seventh failure in a row was scheduled after the 30 s cap, and the
\* sixth before it too
C18_Witness ==
    /\ lastOp.dev = User /\ lastOp.fx.delays = <<30000>>
    /\ used.sinceReset[User] = 7
    /\ client[User].reconnectAttempts = 7

\* a failure right after a SUBSCRIBED that followed earlier failures is
\* scheduled after 1 s again
C18_ResetWitness ==
    /\ lastOp.dev = User /\ lastOp.fx.delays = <<1000>>
    /\ used.failures <= MaxReconnectFailures - 3
    /\ used.streak[User] = 1
    /\ client[User].connectionStatus = "disconnected"

\* every "error" among the statuses reported by a step follows "connecting"
\* or "connected"; before is the status reported last before the step
ErrorOnlyFromConnecting(before, reports) ==
    \A i \in 1..Len(reports) :
        reports[i] = "error" =>
            (IF i = 1 THEN before ELSE reports[i - 1]) \in {"connecting", "connected"}

\* a failure report on device d while its subscription is not torn down
FailureReported(d) ==
    /\ client[d].storedCallback
    /\ \/ \E status \in {"CHANNEL_ERROR", "TIMED_OUT", "CLOSED"} : ChannelFails(d, status)
       \/ RemovedChannelCloses(d)

C19_FailureSchedulesReconnect ==
    \A d \in Devices :
        FailureReported(d) =>
            /\ client'[d].reconnectTimeout # NullTime
            /\ ElapsedMs(client'[d].reconnectTimeout, now) > 0
            /\ client'[d].data = client[d].data
            /\ client'[d].localStorage = client[d].localStorage

C19_TimerResubscribes ==
    \A d \in Devices :
        ReconnectTimerFires(d) =>
            /\ client'[d].realtimeChannel = "joining"
            /\ client'[d].connectionStatus = "connecting"

C19_ErrorFromConnecting ==
    \A d \in Devices :
        lastOp'.dev = d =>
            ErrorOnlyFromConnecting(client[d].connectionStatus, lastOp'.fx.reports)

\* C19: whenever the channel reports CHANNEL_ERROR, TIMED_OUT or CLOSED while
\* the subscription has not been torn down, a reconnect timer is pending
\* afterwards and, when it fires, a new subscription attempt is made (status
\* connecting); the reported status reaches error only from connecting or
\* connected, and the failure changes neither the in-memory document nor the
\* local cache.
C19_FailureReconnects ==
    [][/\ C19_FailureSchedulesReconnect
       /\ C19_TimerResubscribes
       /\ C19_ErrorFromConnecting]_vars

\* the subscription of device d is torn down: no callback is stored, no
\* reconnect timer is pending and no channel is subscribed
TornDown(s) ==
    /\ ~s.storedCallback
    /\ s.reconnectTimeout = NullTime
    /\ s.realtimeChannel = "null"

\* C20: after unsubscribeFromChanges no reconnect timer is pending and no
\* subscription attempt is ever made again, even when the removed channel
\* reports CLOSED afterwards, until subscribeToChanges is called anew.
C20_TeardownIsFinal ==
    [][\A d \in Devices :
          /\ Unsubscribe(d) => TornDown(client'[d])
          /\ (client[d].supabase /\ TornDown(client[d]) /\ ~SubscribeAnew(d)) =>
                 TornDown(client'[d])]_vars

\* the channel removed by the teardown has reported CLOSED, after failures
\* that had a reconnect scheduled
C20_Witness ==
    /\ lastOp.dev = User /\ lastOp.fx.branch = "REMOVED_CLOSED"
    /\ lastOp.fx.reports = <<"disconnected">> /\ lastOp.fx.delays = <<>>
    /\ TornDown(client[User])
    /\ client[User].reconnectAttempts > 0

\* the fields of the realtime subscription of a device
Subscription(s) ==
    [storedCallback |-> s.storedCallback, reconnectAttempts |-> s.reconnectAttempts,
     reconnectTimeout |-> s.reconnectTimeout, realtimeChannel |-> s.realtimeChannel,
     removed |-> s.removed, connectionStatus |-> s.connectionStatus,
     syncStatus |-> s.syncStatus]

\* C21: forceReconnect, when a subscription callback is stored, sets the
\* attempt counter to 0, cancels any pending reconnect timer, removes the
\* current channel and starts a new subscription in the same turn, so that the
\* next failure after it is scheduled with the 1 s delay; without a stored
\* callback it changes nothing.
C21_ForceReconnectResets ==
    [][\A d \in Devices :
          /\ (ForceReconnectAnytime(d) /\ client[d].storedCallback) =>
                 /\ client'[d].reconnectAttempts = 0
                 /\ client'[d].reconnectTimeout = NullTime
                 /\ client'[d].realtimeChannel = "joining"
                 /\ client'[d].removed =
                        IF client[d].realtimeChannel = "null" THEN client[d].removed
                        ELSE Min(client[d].removed + 1, MaxRemoved)
                 /\ client'[d].storedCallback
                 /\ lastOp'.fx.reports = <<"connecting", "connecting">>
                 /\ now' = now
          /\ (ForceReconnectAnytime(d) /\ ~client[d].storedCallback) =>
                 /\ Subscription(client'[d]) = Subscription(client[d])
                 /\ client'[d].data = client[d].data
                 /\ lastOp'.fx.reports = <<>>
          /\ (FailureReported(d) /\ lastOp.dev = d /\ lastOp.op = "forceReconnect") =>
                 lastOp'.fx.delays = <<BASE_RECONNECT_DELAY>>]_vars

\* a forced reconnect after three failures in a row, with the 4 s timer still
\* pending, followed by a failure that is scheduled after 1 s
C21_Witness ==
    /\ lastOp.dev = User /\ lastOp.op = "channel" /\ lastOp.fx.delays = <<BASE_RECONNECT_DELAY>>
    /\ used.streak[User] = 4 /\ used.sinceReset[User] = 1
    /\ client[User].reconnectAttempts = 1
    /\ client[User].removed = 0

\* a click after the teardown left everything as it was
C21_TornDownWitness ==
    /\ lastOp.dev = User /\ lastOp.op = "forceReconnect" /\ lastOp.fx.reports = <<>>
    /\ TornDown(client[User])

\* device d has nothing of its own under way: no push timer, no upsert in
\* flight, no notification undelivered
NothingPending(d) ==
    /\ client[d].pushTimers = {}
    /\ \A r \in requests : r.from # d
    /\ inbox[d] = <<>>

\* C22: on every connection and reconnection of the realtime channel the
\* client performs a full fetch of the shared remote record, so that a change
\* another device wrote while this device was disconnected is reflected on
\* this device after the reconnect.
C22_RefetchOnReconnect ==
    [][\A d \in Devices :
          (ChannelSubscribed(d) /\ NothingPending(d)) => client'[d].data = remote.data]_vars

\* C23: reconciliation (applyParsedData) never throws, for any incoming
\* document: documents that lack children or logs, or whose diapers or meds
\* are missing or not list-shaped, are coerced and ingested without an
\* exception reaching the caller.
C23_ReconciliationNeverThrows ==
    [][\A d \in Devices :
          (lastOp'.dev = d /\ lastOp'.op \in {"applyParsedData", "applySerialized"}) =>
              lastOp'.fx.branch = "applied"]_vars

\* C24: reconciliation is idempotent: applying to the live state a document
\* obtained by serializing that same state yields a state equal to the
\* original, and applying any incoming document a second time changes
\* nothing that the first application produced.
C24_ReconciliationIdempotent ==
    [][\A d \in Devices :
          /\ ApplySerialized(d) =>
                 /\ lastOp'.fx.branch = "applied"
                 /\ Stringified(client'[d].data) = Stringified(client[d].data)
          /\ (ApplyParsedData(d) /\ lastOp.dev = d /\ lastOp.op = "applyParsedData") =>
                 client'[d].data = client[d].data]_vars

\* the incoming document was applied twice without an exception, and the
\* first application had changed the data of the device
C24_Witness ==
    /\ lastOp.dev = User /\ lastOp.op = "applyParsedData" /\ lastOp.fx.branch = "applied"
    /\ used.actions = 0
    /\ client[User].data \notin {FreshData, KnownData}
    /\ Get(At(Get(client[User].data, "children"), 1), "birthDate") = Str("2025-06-01")
    /\ Get(At(Get(client[User].data, "logs"), 1), "diapers") = Arr(<<>>)

IdentityFields == {"birthDate", "weightKg", "weightDate"}

\* the field of child i as the document holds it, undefined when the
\* document has no children list, no entry i or no such field
ChildField(doc, i, field) == Get(At(Get(doc, "children"), i), field)

\* the documents a call of applyParsedData on device d can be given
IncomingOf(d) ==
    (IF inbox[d] # <<>> THEN {Head(inbox[d]).data} ELSE {}) \cup {Stringified(client[d].data)}

\* the call of applyParsedData made by the step, with its incoming document
Ingests(d, parsed) ==
    \/ ApplyParsedData(d) /\ parsed = Head(inbox[d]).data
    \/ ApplySerialized(d) /\ parsed = Stringified(client[d].data)

MedsOf(d) ==
    {cm \in Children \X (1..MaxDoses + 1) :
        cm[2] <= Len(client[d].data.children[cm[1]].medications)}

ScheduleOf(d, cm) == client[d].data.children[cm[1]].medications[cm[2]]
UrgencyOf(d, cm) == getMedUrgency(ScheduleOf(d, cm), client[d].data.logs[cm[1]], now)

\* the doses of the schedule that are not in the done set, counted from 1
NotDone(d, cm) ==
    {i \in 1..Len(ScheduleOf(d, cm).doseTimes) :
        ~Includes(DoneList(client[d].data.logs[cm[1]], ScheduleOf(d, cm).id), i - 1)}

\* dose time i, taken as occurring today, minus now, in milliseconds
DiffMs(d, cm, i) ==
    LET t == ScheduleOf(d, cm).doseTimes[i]
    IN  (t.hour * MS_PER_HOUR + t.min * MS_PER_MINUTE) - now.ms

\* C26: for every medication schedule, done set and now: if some not-done
\* dose time T (taken as occurring today) satisfies now - T > 30 minutes,
\* getMedUrgency returns status urgent and a text containing "late".
C26_OverdueIsLate ==
    \A d \in Devices : \A cm \in MedsOf(d) :
        (\E i \in NotDone(d, cm) : 0 - DiffMs(d, cm, i) > 30 * MS_PER_MINUTE) =>
            /\ UrgencyOf(d, cm).status = "urgent"
            /\ UrgencyOf(d, cm).text.kind = "late"

\* the later dose of a schedule is overdue by more than 30 minutes while the
\* first is due now, and the medication shows as late
C26_Witness ==
    /\ \E i \in NotDone(User, <<1, 1>>) : i > 1 /\ 0 - DiffMs(User, <<1, 1>>, i) > 30 * MS_PER_MINUTE
    /\ 1 \in NotDone(User, <<1, 1>>) /\ DiffMs(User, <<1, 1>>, 1) = 0 - MS_PER_MINUTE \div 60
    /\ UrgencyOf(User, <<1, 1>>).text.kind = "late"
    /\ UrgencyOf(User, <<1, 1>>).nextDose.index = 1

\* C27 (as stated): for every medication schedule, done set and now: if some
\* not-done dose time T lies within 30 minutes before or after now,
\* getMedUrgency returns status urgent with the text "Now".
C27_DueWithin30IsNow ==
    \A d \in Devices : \A cm \in MedsOf(d) :
        (\E i \in NotDone(d, cm) :
            /\ DiffMs(d, cm, i) >= 0 - 30 * MS_PER_MINUTE
            /\ DiffMs(d, cm, i) <= 30 * MS_PER_MINUTE) =>
            /\ UrgencyOf(d, cm).status = "urgent"
            /\ UrgencyOf(d, cm).text.kind = "Now"

\* C27 (amended): for every medication schedule, done set and now: if some
\* not-done dose time T lies at most 30 minutes before or less than 30
\* minutes after now and no not-done dose time lies more than 30 minutes
\* before now, getMedUrgency returns status urgent with the text "Now".
C27_SelectedWithin30IsNow ==
    \A d \in Devices : \A cm \in MedsOf(d) :
        (/\ \E i \in NotDone(d, cm) :
               /\ DiffMs(d, cm, i) >= 0 - 30 * MS_PER_MINUTE
               /\ DiffMs(d, cm, i) < 30 * MS_PER_MINUTE
         /\ \A i \in NotDone(d, cm) : DiffMs(d, cm, i) >= 0 - 30 * MS_PER_MINUTE) =>
            /\ UrgencyOf(d, cm).status = "urgent"
            /\ UrgencyOf(d, cm).text.kind = "Now"

\* a dose one second short of 30 minutes ahead shows as Now, after the dose
\* that was exactly 30 minutes overdue has been given
C27_Witness ==
    /\ lastOp.op = "giveMed" /\ lastOp.fx.branch = "logged"
    /\ NotDone(User, <<1, 1>>) = {2}
    /\ DiffMs(User, <<1, 1>>, 2) = 30 * MS_PER_MINUTE - MS_PER_MINUTE \div 60
    /\ DiffMs(User, <<1, 1>>, 1) = 0 - 30 * MS_PER_MINUTE - MS_PER_MINUTE \div 60
    /\ UrgencyOf(User, <<1, 1>>).text.kind = "Now"

\* the dose reported as nextDose, counted from 1 (0 when nextDose is null)
ReportedDose(d, cm) == UrgencyOf(d, cm).nextDose.index + 1

\* C28: getMedUrgency reports as nextDose the not-done dose with the smallest
\* signed difference (dose time today minus now); when several not-done doses
\* have the same difference the one with the lowest index is reported; a dose
\* whose index is in the done set is never reported.
C28_SmallestDifferenceLowestIndex ==
    \A d \in Devices : \A cm \in MedsOf(d) :
        /\ NotDone(d, cm) # {} =>
              /\ ReportedDose(d, cm) \in NotDone(d, cm)
              /\ \A j \in NotDone(d, cm) :
                    \/ DiffMs(d, cm, ReportedDose(d, cm)) < DiffMs(d, cm, j)
                    \/ /\ DiffMs(d, cm, ReportedDose(d, cm)) = DiffMs(d, cm, j)
                       /\ ReportedDose(d, cm) <= j
        /\ ReportedDose(d, cm) \in 1..Len(ScheduleOf(d, cm).doseTimes) =>
              ReportedDose(d, cm) \in NotDone(d, cm)

\* the most overdue dose has been given; the first and third dose have the
\* same difference and the first is reported
C28_Witness ==
    /\ lastOp.op = "giveMed" /\ lastOp.fx.branch = "logged"
    /\ MedsOf(User) # {} /\ Len(ScheduleOf(User, <<1, 1>>).doseTimes) = 3
    /\ NotDone(User, <<1, 1>>) = {1, 3}
    /\ DiffMs(User, <<1, 1>>, 1) = DiffMs(User, <<1, 1>>, 3)
    /\ DiffMs(User, <<1, 1>>, 2) < DiffMs(User, <<1, 1>>, 1)
    /\ ReportedDose(User, <<1, 1>>) = 1

\* the smallest signed difference among the not-done doses, in milliseconds
SelectedDiffMs(d, cm) ==
    CHOOSE m \in {DiffMs(d, cm, i) : i \in NotDone(d, cm)} :
        \A j \in NotDone(d, cm) : m <= DiffMs(d, cm, j)

\* C29: with d the signed difference in minutes of the selected dose,
\* getMedUrgency returns status urgent when d < 30, soon when 30 <= d < 120
\* and normal when d >= 120; it returns done with nextDose null exactly when
\* every dose index of the schedule is in the done set.
C29_StatusByDifference ==
    \A d \in Devices : \A cm \in MedsOf(d) :
        /\ (UrgencyOf(d, cm).status = "done") = (NotDone(d, cm) = {})
        /\ (UrgencyOf(d, cm).nextDose.index = -1) = (NotDone(d, cm) = {})
        /\ NotDone(d, cm) # {} =>
              LET diff == SelectedDiffMs(d, cm)
              IN  UrgencyOf(d, cm).status =
                      IF diff < 30 * MS_PER_MINUTE THEN "urgent"
                      ELSE IF diff < 120 * MS_PER_MINUTE THEN "soon"
                      ELSE "normal"

\* after the first dose is given the remaining one, two hours ahead less the
\* time that has passed, shows as soon
C29_Witness ==
    /\ lastOp.op = "giveMed" /\ lastOp.fx.branch = "logged"
    /\ MedsOf(User) # {} /\ NotDone(User, <<1, 1>>) = {2}
    /\ SelectedDiffMs(User, <<1, 1>>) < 120 * MS_PER_MINUTE
    /\ SelectedDiffMs(User, <<1, 1>>) > 119 * MS_PER_MINUTE
    /\ UrgencyOf(User, <<1, 1>>).status = "soon"

\* every dose of a two-dose schedule has been given and the medication is done
C29_DoneWitness ==
    /\ lastOp.op = "giveMed" /\ lastOp.fx.branch = "logged"
    /\ MedsOf(User) # {} /\ Len(ScheduleOf(User, <<1, 1>>).doseTimes) = 2
    /\ NotDone(User, <<1, 1>>) = {}
    /\ UrgencyOf(User, <<1, 1>>).status = "done"

\* the events the planner was last drawn for, and their positions
Drawn == getTimelineEvents(getViewingLogs(client[lastOp.dev], now)[lastOp.fx.childIndex])
DrawnY(e) == PositionY(e, lastOp.fx.hourHeight)
LayoutOf(e) ==
    LET i == CHOOSE i \in 1..Len(lastOp.fx.layout) : lastOp.fx.layout[i].event = e
    IN  lastOp.fx.layout[i]

\* a position starts a group when no event lies above it by less than one
\* event height; two events are in one group when no position starts a group
\* below the upper and down to the lower of the two
StartsGroup(k) ==
    ~\E m \in Drawn : DrawnY(m) < DrawnY(k) /\ DrawnY(k) < DrawnY(m) + EVENT_HEIGHT * 60
SameGroup(e, f) ==
    \A k \in Drawn :
        (/\ DrawnY(k) > DrawnY(e) \/ DrawnY(k) > DrawnY(f)
         /\ DrawnY(k) <= DrawnY(e) \/ DrawnY(k) <= DrawnY(f)) => ~StartsGroup(k)
GroupOf(e) == {f \in Drawn : SameGroup(e, f)}

\* C30: calculateEventColumns gives every input event a layout; an event joins
\* the current group of the sweep over the time-sorted events if and only if
\* its position is strictly less than the group's maximum end position, and
\* the n events of a group receive the distinct columns 0..n-1 with
\* totalColumns = n: three events at the same position get columns {0,1,2}
\* with totalColumns 3, an isolated event gets column 0 with totalColumns 1.
C30_ColumnsByGroup ==
    lastOp.op = "renderPlanner" =>
        /\ {lastOp.fx.layout[i].event : i \in 1..Len(lastOp.fx.layout)} = Drawn
        /\ Len(lastOp.fx.layout) = Cardinality(Drawn)
        /\ \A e \in Drawn :
              /\ LayoutOf(e).totalColumns = Cardinality(GroupOf(e))
              /\ {LayoutOf(f).column : f \in GroupOf(e)} = 0..(Cardinality(GroupOf(e)) - 1)
              /\ (\A f \in Drawn \ {e} : DrawnY(f) + EVENT_HEIGHT * 60 <= DrawnY(e)
                                          \/ DrawnY(e) + EVENT_HEIGHT * 60 <= DrawnY(f)) =>
                    LayoutOf(e).column = 0 /\ LayoutOf(e).totalColumns = 1
        /\ (Cardinality(Drawn) = 3 /\ \A e, f \in Drawn : DrawnY(e) = DrawnY(f)) =>
              /\ {LayoutOf(e).column : e \in Drawn} = {0, 1, 2}
              /\ \A e \in Drawn : LayoutOf(e).totalColumns = 3

\* three feeds at the same time and a diaper change exactly one event height
\* below them: the feeds share three columns and the diaper change is alone
C30_Witness ==
    /\ lastOp.op = "renderPlanner" /\ Cardinality(Drawn) = 4
    /\ \E e \in Drawn :
          /\ e.type = "pee" /\ LayoutOf(e).column = 0 /\ LayoutOf(e).totalColumns = 1
          /\ \A f \in Drawn \ {e} :
                /\ f.type = "feed" /\ DrawnY(e) = DrawnY(f) + EVENT_HEIGHT * 60
                /\ LayoutOf(f).totalColumns = 3
          /\ {LayoutOf(f).column : f \in Drawn \ {e}} = {0, 1, 2}

\* three events each less than one event height below the one before, the
\* last more than one event height below the first, share three columns
C30_ChainWitness ==
    /\ lastOp.op = "renderPlanner" /\ Cardinality(Drawn) = 3
    /\ \E e, f \in Drawn :
          /\ DrawnY(f) > DrawnY(e) + EVENT_HEIGHT * 60
          /\ LayoutOf(e).totalColumns = 3 /\ LayoutOf(f).totalColumns = 3
          /\ LayoutOf(e).column = 0 /\ LayoutOf(f).column = 2

\* C31: while the current channel is SUBSCRIBED and reports no error, timeout
\* or close, no reconnect timer is pending and the attempt counter is 0, also
\* when a channel that was replaced or removed earlier delivers its CLOSED
\* status afterwards; and the reconnect timer never replaces a channel that
\* is SUBSCRIBED by a new subscription attempt.
C31_QuietWhileSubscribed ==
    \A d \in Devices :
        client[d].realtimeChannel = "joined" =>
            /\ client[d].reconnectTimeout = NullTime
            /\ client[d].reconnectAttempts = 0

C31_NoAttemptWhileSubscribed ==
    [][\A d \in Devices :
          (client[d].realtimeChannel = "joined" /\ lastOp'.dev = d /\ lastOp'.op = "reconnect") =>
              client'[d].realtimeChannel = "joined"]_vars

\* the device has not rolled over to the current date yet and shows its live day
DateChanged(d) ==
    /\ client[d].data.today # getDateKey(now)
    /\ client[d].viewingDate = client[d].data.today

\* C32: after the local calendar date has changed, the rollover check is
\* applied before the next logging action is evaluated: the first logFeed,
\* logDiaper, giveMed or addOverdueMed after midnight is neither dropped nor
\* archived under the previous day, but recorded in the new day's live log.
C32_FirstLogAfterMidnight ==
    [][\A d \in Devices :
          (/\ DateChanged(d)
           /\ lastOp'.dev = d
           /\ \/ lastOp'.op \in {"logFeed", "logDiaper"}
              \/ lastOp'.op \in {"giveMed", "addOverdueMed"} /\ lastOp'.fx.branch = "logged") =>
              /\ client'[d].data.today = getDateKey(now)
              /\ hasAnyData(client'[d].data.logs)
              /\ client'[d].data.historicalLogs = client[d].data.historicalLogs
                 \/ /\ HasKey(client'[d].data.historicalLogs, client[d].data.today)
                    /\ client'[d].data.historicalLogs[client[d].data.today] = client[d].data.logs]_vars

\* the list of the live log that holds events of the dragged type
DragField(drag) ==
    CASE drag.type = "feed" -> "feeds" [] drag.type = "med" -> "meds" [] OTHER -> "diapers"

\* the event the drag was started on is at its index in the live log of device d
DraggedIsLive(d) ==
    LET drag == client[d].dragState
        list == client[d].data.logs[drag.childIndex][DragField(drag)]
    IN  /\ drag.active
        /\ client[d].data.today = getDateKey(now)
        /\ drag.originalIndex \in 1..Len(list)
        /\ list[drag.originalIndex].timestamp = drag.timestamp

\* C33: for every drag distance, a drop reschedules the event to an hour in
\* 0..23 and a minute in 0..59, rounded to 5 minutes; updateEventTime changes
\* only the time string and timestamp of that live event, the new timestamp
\* lies on the same calendar day as the old one, and the new time string
\* denotes the same hour and minute as the new timestamp.
C33_DropStaysWithinDay ==
    [][\A d \in Devices :
          (/\ DraggedIsLive(d)
           /\ lastOp'.dev = d /\ lastOp'.op = "endDragging" /\ lastOp'.fx.branch = "moved") =>
              LET drag == client[d].dragState
                  c == drag.childIndex
                  i == drag.originalIndex
                  old == client[d].data.logs[c][DragField(drag)][i]
                  new == client'[d].data.logs[c][DragField(drag)][i]
              IN  /\ client'[d].data =
                         [client[d].data EXCEPT !.logs[c][DragField(drag)][i] = new]
                  /\ [new EXCEPT !.time = old.time, !.timestamp = old.timestamp] = old
                  /\ new.timestamp.date = old.timestamp.date
                  /\ new.timestamp.ms % (5 * MS_PER_MINUTE) = 0
                  /\ ParseDisplayHour(new.time) = HourOf(new.timestamp.ms)
                  /\ ParseDisplayMinute(new.time) = MinuteOf(new.timestamp.ms)]_vars

\* C34: in every reachable state historicalLogs holds at most 30 date keys,
\* on every device, in its cache and in the remote row, including after a
\* remote document is loaded or reconciled.
C34_ArchiveAtMost30 ==
    /\ \A d \in Devices :
          /\ Cardinality(DOMAIN client[d].data.historicalLogs) <= 30
          /\ Cardinality(DOMAIN Parse(client[d].localStorage).historicalLogs) <= 30
    /\ Cardinality(DOMAIN remote.data.historicalLogs) <= 30

\* a device reconciles the document of the other device, which has rolled
\* over with a full archive: day 1 is archived, the oldest date evicted, and
\* the reconciled archive holds 30 dates
C34_Witness ==
    /\ lastOp.op = "onChange" /\ lastOp.fx.branch = "applied"
    /\ LET kept == DOMAIN client[lastOp.dev].data.historicalLogs
       IN  /\ Cardinality(kept) = 30
           /\ 1 \in kept /\ (0 - 29) \notin kept
    /\ ~lastOp.fx.rolled
    /\ client[lastOp.dev].data.today = 2

\* the number of entries of a list-valued property of the document, -1 when
\* the property is not a list
CountOf(doc, name) == IF IsArray(Get(doc, name)) THEN Len(Get(doc, name).items) ELSE 0 - 1

\* C35: in every reachable state the document has exactly two children and
\* exactly two live DayLogs, including after any incoming document is loaded
\* or reconciled.
C35_TwoChildrenTwoLogs ==
    /\ CountOf(client[User].data, "children") = 2
    /\ CountOf(client[User].data, "logs") = 2

\* no push timer pending, no upsert under way, no notification undelivered
NothingInFlight ==
    /\ requests = {}
    /\ \A d \in Devices : client[d].pushTimers = {} /\ inbox[d] = <<>>

\* a run of the notification handler starts no push timer and issues no
\* upsert, and leaves the cache equal to the data it holds when it applied
ReconcilingNeverPushes ==
    [][\A d \in Devices :
          (lastOp'.dev = d /\ lastOp'.op = "onChange") =>
              /\ client'[d].pushTimers = client[d].pushTimers
              /\ client'[d].saveTimeout = client[d].saveTimeout
              /\ requests' = requests
              /\ lastOp'.fx.upserts = 0
              /\ lastOp'.fx.rolled => client'[d].localStorage = Stringify(client'[d].data)]_vars

\* C36: reconciling a remote change never schedules or issues a push of its
\* own: a saveData call made during reconciliation (by a rollover triggered
\* in updateDisplay) only writes the local cache. Hence, once the users act no
\* more, the devices exchange finitely many pushes and the system reaches a
\* state with no push pending and no notification undelivered, and stays so.
C36_NoEchoLoop == ReconcilingNeverPushes /\ <>[]NothingInFlight

\* a device reconciles a document written before midnight, rolls over in
\* the same handler run, writes its cache and starts no push
C36_Witness ==
    /\ lastOp.op = "onChange" /\ lastOp.fx.branch = "applied" /\ lastOp.fx.rolled
    /\ client[lastOp.dev].pushTimers = {}
    /\ client[lastOp.dev].data.today = getDateKey(now)
    /\ remote.data.today # getDateKey(now)
    /\ client[lastOp.dev].localStorage = Stringify(client[lastOp.dev].data)
    /\ requests = {}

LogFields == {"feeds", "meds", "diapers"}

\* C37: updateEventTime changes the event the user started to drag: when a
\* remote change is reconciled, or another event is deleted, between the
\* start of the drag and the drop, no other event's time or timestamp is
\* changed (a drop changes only entries that carry the timestamp of the event
\* the drag was started on, in the list of that child and type).
C37_DropMovesDraggedOnly ==
    [][\A d \in Devices :
          (/\ client[d].dragState.active
           /\ lastOp'.dev = d /\ lastOp'.op = "endDragging" /\ ~lastOp'.fx.rolled) =>
              LET drag == client[d].dragState
              IN  \A c \in Children, f \in LogFields :
                      /\ Len(client'[d].data.logs[c][f]) = Len(client[d].data.logs[c][f])
                      /\ \A i \in 1..Len(client[d].data.logs[c][f]) :
                             client'[d].data.logs[c][f][i] # client[d].data.logs[c][f][i] =>
                                 /\ c = drag.childIndex
                                 /\ f = DragField(drag)
                                 /\ client[d].data.logs[c][f][i].timestamp = drag.timestamp]_vars

\* C38: every POST to the feeds endpoint that returns success leaves its
\* event in the shared remote document and removes no event that was already
\* stored there, also when a POST and a client push run concurrently (no
\* lost update in the fetch, modify, upsert sequence).
C38_PostLosesNoEvent ==
    [][\A call \in api :
          (api' = api \ {call} /\ remote.exists) =>
              /\ <<call.childIndex, "feed", ApiFeedEntry(now)>> \in EventsOf(remote'.data.logs)
              /\ EventsOf(remote.data.logs) \subseteq EventsOf(remote'.data.logs)]_vars

\* C39: for every hour in 0..23 and minute in 0..59, the 12-hour display
\* string that updateEventTime writes (and that the feeds endpoint writes) is
\* parsed back by getTimelineEvents to the same hour and minute: 12:xx AM
\* maps to hour 0, 12:xx PM to hour 12, other PM hours add 12, and the AM/PM
\* marker is matched case-insensitively. Every event of today that the
\* planner lists has the hour and minute its string was written for, which
\* are those of its timestamp.
C39_DisplayTimeReadBack ==
    \A ev \in getTimelineEvents(client[User].data.logs[1]) :
        ev.timestamp.date = client[User].data.today =>
            /\ ev.hour = HourOf(ev.timestamp.ms)
            /\ ev.minute = MinuteOf(ev.timestamp.ms)

\* a feed was dropped at noon: updateEventTime wrote 12:00 PM and the planner
\* lists it at hour 12
C39_Witness ==
    /\ lastOp.op = "endDragging" /\ lastOp.fx.branch = "moved"
    /\ client[User].data.logs[1].feeds[1].time = <<"1", "2", ":", "0", "0", " ", "P", "M">>
    /\ \E ev \in getTimelineEvents(client[User].data.logs[1]) : ev.hour = 12 /\ ev.minute = 0

====
